---------------------------- MODULE Spec2Model ----------------------------
(***************************************************************************)
(* Resilient data access of agente_citas_ventas.                           *)
(*                                                                         *)
(*  citas_ventas process: get_horario (TTL cache + per-tenant asyncio.Lock *)
(*  + resilient_call with the informacion circuit breaker).                *)
(*  ventas process: fetch_contexto_negocio (TTL cache + in-flight Task     *)
(*  registry + _do_fetch_contexto with its own breaker counter), and       *)
(*  resilient_call with the arguments its callers may pass.                *)
(*  citas_ventas booking: confirm_booking with the calendario breaker,     *)
(*  ScheduleValidator.validate on top of get_horario,                      *)
(*  ScheduleValidator.recommendation, and the agent's tools                *)
(*  check_availability and create_booking on top of them.                  *)
(*                                                                         *)
(* app names the part of the program a behaviour runs.                     *)
(*                                                                         *)
(* One asyncio event loop per process: an action is the code a coroutine   *)
(* runs between two suspension points (network await, lock wait, backoff   *)
(* sleep, await of a Task).  Time is the TTLCache timer, in ticks; it      *)
(* advances only between actions.                                          *)
(***************************************************************************)
EXTENDS Integers, Sequences, FiniteSets, TLC

VARIABLES app, ncalls, pc, key, ret, attempt, lockOf,
          horario_cache, failures, fetch_locks, lockWaiters, streak, herd,
          contexto_cache, contexto_failures, contexto_inflight, task, inbox,
          call, calendario_failures, transport_failed,
          req, utc_now, rec, tool

vars == <<app, ncalls, pc, key, ret, attempt, lockOf,
          horario_cache, failures, fetch_locks, lockWaiters, streak, herd,
          contexto_cache, contexto_failures, contexto_inflight, task, inbox,
          call, calendario_failures, transport_failed,
          req, utc_now, rec, tool>>

citasVars == <<horario_cache, failures, fetch_locks, lockWaiters, lockOf, streak, herd>>
ventasVars == <<contexto_cache, contexto_failures, contexto_inflight, task, inbox>>
bookingVars == <<calendario_failures, transport_failed>>
validatorVars == <<req, utc_now, rec, tool>>

\* the applications that run in the citas_ventas process
CitasApps == {"citas", "validator", "tool"}

-----------------------------------------------------------------------------
(* Bounds of the model *)

\* calls made in one behaviour
MaxCalls == 4
\* largest max_retries argument passed to resilient_call
MaxRetriesArg == 3
\* calls of the agent's tools made in one behaviour
MaxToolCalls == 2
\* ttl of _horario_cache (SCHEDULE_CACHE_TTL_MINUTES * 60 s), in ticks
CacheTTL == 1
\* cooldown of the breaker's failure memory (ttl=300 s), in ticks
FailTTL == 1
\* ttl of _contexto_cache (3600 s), in ticks
ContextoTTL == 1

\* coroutines calling into the service layer
Procs == {1, 2}
\* tenants (id_empresa)
Keys == {"e1", "e2"}
\* schedules / contexts the upstream can answer with
Values == {"hA", "hB"}
\* keys under which confirm_booking uses calendario_cb
CalKeys == {"global"}
\* circuit_key arguments passed to resilient_call called on its own
CallKeys == {"e1"}
\* backoff_base arguments passed to resilient_call
Bases == {1, 2}
\* exceptions an attempt can raise
Excs == {"Timeout", "Connect"}

(* Program constants *)
FAILURE_THRESHOLD == 3
max_retries == 2

NoKey == ""
None == "None"
NoEntry == [val |-> None, left |-> 0]
NoLock == "nolock"
\* identities of asyncio.Lock objects
LockIds == {"L1", "L2", "L3", "L4", "L5"}

-----------------------------------------------------------------------------
(* cachetools.TTLCache.  An entry stores its expiry instant and is visible *)
(* while timer() < expires; the model keeps the time the entry has left,   *)
(* counted down by Tick, which is the same comparison read off the entry.  *)
(* Expired entries stay in the table until the next __setitem__ purges.    *)

TTLHas(c, k) == c[k].left > 0

\* variant: the stored value is read whether or not it has expired
TTLGetStale(c, k, default) == c[k].val

TTLGet(c, k, default) == IF TTLHas(c, k) THEN c[k].val ELSE default

\* __setitem__: purge what has expired, then store with a fresh expiry
TTLSet(c, k, v, ttl, empty) ==
    [j \in DOMAIN c |-> IF j = k THEN [val |-> v, left |-> ttl]
                    ELSE IF c[j].left = 0 THEN empty
                    ELSE c[j]]

\* pop(key, None): removes a visible entry
TTLPop(c, k, empty) == IF TTLHas(c, k) THEN [c EXCEPT ![k] = empty] ELSE c

\* the timer advances by one tick
TTLAge(c) == [j \in DOMAIN c |-> IF c[j].left > 0 THEN [c[j] EXCEPT !.left = @ - 1] ELSE c[j]]

-----------------------------------------------------------------------------
(* Circuit breaker: failure counters in a TTLCache *)

NoFail == [val |-> 0, left |-> 0]

FailureCount(f, k) == TTLGet(f, k, 0)

\* informacion_cb.is_open(key): the breaker object shares the failure
\* memory that resilient_call tests and updates
is_open(k) == FailureCount(failures, k) >= FAILURE_THRESHOLD

record_success(f, k) == TTLPop(f, k, NoFail)

\* variant: every failure is counted under one shared key
record_failure_shared(f, k) == TTLSet(f, "e1", FailureCount(f, "e1") + 1, FailTTL, NoFail)

record_failure(f, k) == TTLSet(f, k, FailureCount(f, k) + 1, FailTTL, NoFail)

-----------------------------------------------------------------------------
(* citas_ventas: get_horario *)

Min(a, b) == IF a < b THEN a ELSE b

Active(p) == pc[p] \in {"wait", "fetch", "sleep"}

HoldsLock(p) == pc[p] \in {"fetch", "sleep"}

Locked(l) == \E p \in Procs : lockOf[p] = l /\ HoldsLock(p)

UsedLocks == {fetch_locks[k] : k \in Keys} \cup {lockOf[p] : p \in Procs}

\* asyncio.Lock(): a new object, distinct from every lock still referenced
NewLock == CHOOSE l \in LockIds : l \notin UsedLocks

Remove(s, p) == SelectSeq(s, LAMBDA x : x # p)

(* History of one herd of callers of a tenant that all arrived on a cold    *)
(* cache with the circuit closed before any of them returned: how many     *)
(* there are (counted to 2), how many of their resilient_call runs reached *)
(* the network (counted to 2), and what they returned.  A herd is tracked  *)
(* within one tick of the timer and while none of its callers is cancelled.*)
HerdNone == [st |-> "none", n |-> 0, runs |-> 0, out |-> None]

HerdJoin(k) ==
    LET h == herd[k] IN
    IF ~ \E q \in Procs : Active(q) /\ key[q] = k
        THEN [st |-> "gather", n |-> 1, runs |-> 0, out |-> None]
    ELSE IF h.st = "gather" THEN [h EXCEPT !.n = Min(@ + 1, 2)]
    ELSE HerdNone

HerdRun(h) == IF h.st # "none" THEN [h EXCEPT !.runs = Min(@ + 1, 2)] ELSE h

HerdLeave(h, v) ==
    IF h.st = "gather"
        THEN IF h.n < 2 THEN HerdNone ELSE [h EXCEPT !.st = "closed", !.out = v]
    ELSE IF h.st = "closed"
        THEN [h EXCEPT !.out = IF @ = v THEN v ELSE "differ"]
    ELSE h

(* History of the resilient_call runs of a tenant: n counts the consecutive *)
(* runs that exhausted their retries since the last one that returned;     *)
(* fresh counts those of them recorded while the failure entry left by the *)
(* previous one was still alive.  Both are counted up to the threshold.    *)
Streak0 == [n |-> 0, fresh |-> 0]

StreakFail(k) ==
    [n     |-> Min(streak[k].n + 1, FAILURE_THRESHOLD),
     fresh |-> IF TTLHas(failures, k)
                  THEN Min(streak[k].fresh + 1, FAILURE_THRESHOLD) ELSE 1]

\* variant: the table is consulted without the expiry test
CacheHitStale(k) == horario_cache[k] # NoEntry

\* get_horario, line 64 and line 76: `id_empresa in _horario_cache`
CacheHit(k) == TTLHas(horario_cache, k)

\* variant: no breaker test before the lock
FastRejectNever(k) == FALSE

\* get_horario, lines 69-70: informacion_cb.is_open(id_empresa)
FastReject(k) == is_open(k)

\* variant: the threshold compared with > instead of >=
CircuitRejectsLate(k) == FailureCount(failures, k) > FAILURE_THRESHOLD

\* resilient_call, line 58: the breaker test at entry
CircuitRejects(k) == FailureCount(failures, k) >= FAILURE_THRESHOLD

\* variant: a returned attempt leaves the counter alone
OnReturnKeep(k) == failures

\* resilient_call, line 72: an attempt returned
OnReturn(k) == record_success(failures, k)

\* resilient_call, lines 85-86: every attempt raised
OnExhausted(k) == record_failure(failures, k)

\* resilient_call, line 81: another attempt follows this failed one
RetryAgain(a) == a < max_retries - 1

\* variant: whatever the upstream returned is cached
CacheableAnyAnswer(o) == TRUE

\* get_horario, line 98: what is cached
Cacheable(o) == o = "ok"

\* variant: the lock entry is left in the map
FinallyKeep(fl, k) == fl

\* get_horario, line 121: the finally clause
FinallyPop(fl, k) == [fl EXCEPT ![k] = NoLock]

RetNone == [how |-> "none", val |-> None]

Return(p, how, v) ==
    /\ pc' = [pc EXCEPT ![p] = "idle"]
    /\ ret' = [ret EXCEPT ![p] = [how |-> how, val |-> v]]

(* Lines 74-96 run with the lock l just acquired, up to the first await:   *)
(* double-check of the cache, entry of resilient_call, first attempt.      *)
EnterLocked(p, k, l, fl, h) ==
    IF CacheHit(k) THEN
        /\ Return(p, "hit2", horario_cache[k].val)
        /\ fetch_locks' = fl
        /\ lockOf' = [lockOf EXCEPT ![p] = NoLock]
        /\ herd' = [herd EXCEPT ![k] = HerdLeave(h, horario_cache[k].val)]
    ELSE IF CircuitRejects(k) THEN
        /\ Return(p, "circuit", None)
        /\ fetch_locks' = FinallyPop(fl, k)
        /\ lockOf' = [lockOf EXCEPT ![p] = NoLock]
        /\ herd' = [herd EXCEPT ![k] = HerdLeave(h, None)]
    ELSE
        /\ pc' = [pc EXCEPT ![p] = "fetch"]
        /\ ret' = [ret EXCEPT ![p] = RetNone]
        /\ fetch_locks' = fl
        /\ lockOf' = [lockOf EXCEPT ![p] = l]
        /\ herd' = [herd EXCEPT ![k] = HerdRun(h)]

\* get_horario from its entry to its first suspension or return, for any
\* caller in the citas_ventas process
CallGetHorario(p, k) ==
    /\ UNCHANGED bookingVars
    /\ UNCHANGED call
    /\ pc[p] = "idle"
    /\ ncalls < MaxCalls
    /\ ncalls' = ncalls + 1
    /\ key' = [key EXCEPT ![p] = k]
    /\ attempt' = [attempt EXCEPT ![p] = 0]
    /\ UNCHANGED <<app, horario_cache, failures, streak, ventasVars>>
    /\ IF k = NoKey THEN
            /\ Return(p, "nokey", None)
            /\ UNCHANGED <<lockOf, fetch_locks, lockWaiters, herd>>
       ELSE IF CacheHit(k) THEN
            /\ Return(p, "hit", horario_cache[k].val)
            /\ UNCHANGED <<lockOf, fetch_locks, lockWaiters, herd>>
       ELSE IF FastReject(k) THEN
            /\ Return(p, "open", None)
            /\ UNCHANGED <<lockOf, fetch_locks, lockWaiters, herd>>
       ELSE
            LET l  == IF fetch_locks[k] = NoLock THEN NewLock ELSE fetch_locks[k]
                fl == [fetch_locks EXCEPT ![k] = l]
            IN  IF ~ Locked(l) /\ lockWaiters[l] = <<>> THEN
                    /\ EnterLocked(p, k, l, fl, HerdJoin(k))
                    /\ UNCHANGED lockWaiters
                ELSE
                    /\ pc' = [pc EXCEPT ![p] = "wait"]
                    /\ ret' = [ret EXCEPT ![p] = RetNone]
                    /\ lockOf' = [lockOf EXCEPT ![p] = l]
                    /\ lockWaiters' = [lockWaiters EXCEPT ![l] = Append(@, p)]
                    /\ fetch_locks' = fl
                    /\ herd' = [herd EXCEPT ![k] = HerdJoin(k)]

\* get_horario called on its own (the schedule tool)
GetHorario(p, k) ==
    /\ app = "citas"
    /\ CallGetHorario(p, k)
    /\ UNCHANGED validatorVars

\* variant: a waiter goes on only while its lock is still the registered one
LockFreeAndRegistered(p) == fetch_locks[key[p]] = lockOf[p] /\ ~ Locked(lockOf[p])

\* lines 73-74: `async with lock` on the caller's own reference to the lock
LockFree(p) == ~ Locked(lockOf[p])

(* The first waiter of a released lock resumes inside `async with lock`. *)
LockAcquired(p) ==
    /\ app \in CitasApps
    /\ UNCHANGED <<bookingVars, validatorVars>>
    /\ UNCHANGED call
    /\ pc[p] = "wait"
    /\ LockFree(p)
    /\ Head(lockWaiters[lockOf[p]]) = p
    /\ lockWaiters' = [lockWaiters EXCEPT ![lockOf[p]] = Tail(@)]
    /\ EnterLocked(p, key[p], lockOf[p], fetch_locks, herd[key[p]])
    /\ UNCHANGED <<app, ncalls, key, attempt, horario_cache, failures, streak, ventasVars>>

(* post_with_logging answers the attempt in flight: o is "ok" (success     *)
(* with a schedule v), "biz" (success:false), "empty" (success without a   *)
(* schedule) or "raise" (timeout, connection error, non-2xx).              *)
Response(p, o, v) ==
    /\ app \in CitasApps
    /\ UNCHANGED <<bookingVars, validatorVars>>
    /\ UNCHANGED call
    /\ pc[p] = "fetch"
    /\ UNCHANGED <<app, ncalls, key, attempt, lockWaiters, ventasVars>>
    /\ LET k == key[p] IN
       IF o = "raise" /\ RetryAgain(attempt[p]) THEN
            /\ pc' = [pc EXCEPT ![p] = "sleep"]
            /\ UNCHANGED <<ret, lockOf, horario_cache, failures, fetch_locks, streak, herd>>
       ELSE IF o = "raise" THEN
            /\ failures' = OnExhausted(k)
            /\ streak' = [streak EXCEPT ![k] = StreakFail(k)]
            /\ Return(p, "error", None)
            /\ fetch_locks' = FinallyPop(fetch_locks, k)
            /\ lockOf' = [lockOf EXCEPT ![p] = NoLock]
            /\ herd' = [herd EXCEPT ![k] = HerdLeave(@, None)]
            /\ UNCHANGED horario_cache
       ELSE
            /\ failures' = OnReturn(k)
            /\ streak' = [streak EXCEPT ![k] = Streak0]
            /\ IF Cacheable(o)
                  THEN /\ horario_cache' = TTLSet(horario_cache, k, v, CacheTTL, NoEntry)
                       /\ Return(p, "ok", v)
                       /\ herd' = [herd EXCEPT ![k] = HerdLeave(@, v)]
                  ELSE /\ UNCHANGED horario_cache
                       /\ Return(p, o, None)
                       /\ herd' = [herd EXCEPT ![k] = HerdLeave(@, None)]
            /\ fetch_locks' = FinallyPop(fetch_locks, k)
            /\ lockOf' = [lockOf EXCEPT ![p] = NoLock]

(* asyncio.sleep(backoff_base * 2 ** attempt) is over: next attempt. *)
BackoffDone(p) ==
    /\ app \in CitasApps
    /\ UNCHANGED <<bookingVars, validatorVars>>
    /\ UNCHANGED call
    /\ pc[p] = "sleep"
    /\ pc' = [pc EXCEPT ![p] = "fetch"]
    /\ attempt' = [attempt EXCEPT ![p] = @ + 1]
    /\ UNCHANGED <<app, ncalls, key, ret, citasVars, ventasVars>>

(* The caller's task is cancelled at its suspension point. CancelledError  *)
(* is no Exception: resilient_call records nothing, the finally runs.      *)
CancelHorario(p) ==
    /\ app = "citas"
    /\ UNCHANGED <<bookingVars, validatorVars>>
    /\ UNCHANGED call
    /\ Active(p)
    /\ Return(p, "cancelled", None)
    /\ lockOf' = [lockOf EXCEPT ![p] = NoLock]
    /\ herd' = [herd EXCEPT ![key[p]] = HerdNone]
    /\ IF pc[p] = "wait"
          THEN /\ lockWaiters' = [lockWaiters EXCEPT ![lockOf[p]] = Remove(@, p)]
               /\ UNCHANGED fetch_locks
          ELSE /\ fetch_locks' = FinallyPop(fetch_locks, key[p])
               /\ UNCHANGED lockWaiters
    /\ UNCHANGED <<app, ncalls, key, attempt, horario_cache, failures, streak, ventasVars>>

-----------------------------------------------------------------------------
(* ventas: fetch_contexto_negocio and the Task running _do_fetch_contexto *)

NoTask == [st |-> "none", attempt |-> 0, failed |-> FALSE, out |-> "none", res |-> None]

Running(k) == task[k].st \in {"fetch", "sleep"}

\* lines 76 and 123: `contexto if contexto else None`
OrNone(v) == IF v = "" THEN None ELSE v

\* _is_contexto_circuit_open, lines 34-37
is_contexto_circuit_open(k) == FailureCount(contexto_failures, k) >= FAILURE_THRESHOLD

\* callers suspended on the Task of tenant k
Awaiting(k) == {q \in Procs : key[q] = k /\ pc[q] \in {"own", "shield"}}

(* The Task of k ends (result, or cancelled): its waiters are scheduled to *)
(* resume with what it delivers.                                           *)
Deliver(k, v) ==
    /\ pc' = [q \in Procs |-> IF q \in Awaiting(k)
                                THEN (IF pc[q] = "own" THEN "own_rdy" ELSE "shield_rdy")
                                ELSE pc[q]]
    /\ inbox' = [q \in Procs |-> IF q \in Awaiting(k) THEN v ELSE inbox[q]]

\* variant: success:false leaves the loop and reaches the counter update
BizFailuresCounted(k) ==
    IF task[k].failed
        THEN TTLSet(contexto_failures, k, FailureCount(contexto_failures, k) + 1, FailTTL, NoFail)
        ELSE contexto_failures

\* _do_fetch_contexto, lines 59-64: `return None` on success:false, before
\* any breaker update
BizFailures(k) == contexto_failures

\* _do_fetch_contexto, lines 87-89: the loop ended with failed_by_exception
ExhaustedFailures(k) ==
    TTLSet(contexto_failures, k, FailureCount(contexto_failures, k) + 1, FailTTL, NoFail)

\* fetch_contexto_negocio, line 141: the caller that created the Task
\* awaits it unshielded
CancelReachesTask(p) == pc[p] = "own"

FetchContexto(p, k) ==
    /\ app = "ventas"
    /\ UNCHANGED <<bookingVars, validatorVars>>
    /\ UNCHANGED call
    /\ pc[p] = "idle"
    /\ ncalls < MaxCalls
    /\ ncalls' = ncalls + 1
    /\ key' = [key EXCEPT ![p] = k]
    /\ UNCHANGED <<app, attempt, citasVars, contexto_cache, contexto_failures, inbox>>
    /\ IF k = NoKey THEN
            /\ Return(p, "nokey", None)
            /\ UNCHANGED <<contexto_inflight, task>>
       ELSE IF TTLHas(contexto_cache, k) THEN
            /\ Return(p, "hit", OrNone(contexto_cache[k].val))
            /\ UNCHANGED <<contexto_inflight, task>>
       ELSE IF is_contexto_circuit_open(k) THEN
            /\ Return(p, "open", None)
            /\ UNCHANGED <<contexto_inflight, task>>
       ELSE IF contexto_inflight[k] THEN
            /\ UNCHANGED <<contexto_inflight, task>>
            /\ IF Running(k) THEN
                    /\ pc' = [pc EXCEPT ![p] = "shield"]
                    /\ ret' = [ret EXCEPT ![p] = RetNone]
               ELSE IF task[k].st = "cancelled" THEN
                    Return(p, "cancelled", None)
               ELSE Return(p, "resolved", task[k].res)
       ELSE
            /\ task' = [task EXCEPT ![k] = [NoTask EXCEPT !.st = "fetch"]]
            /\ contexto_inflight' = [contexto_inflight EXCEPT ![k] = TRUE]
            /\ pc' = [pc EXCEPT ![p] = "own"]
            /\ ret' = [ret EXCEPT ![p] = RetNone]

(* _do_fetch_contexto: post_informacion answers the attempt in flight.     *)
(* o is "ok" (success with a context v), "okempty" (success, no context),  *)
(* "biz" (success:false) or "raise".                                       *)
TaskResponse(k, o, v) ==
    /\ app = "ventas"
    /\ UNCHANGED <<bookingVars, validatorVars>>
    /\ UNCHANGED call
    /\ task[k].st = "fetch"
    /\ UNCHANGED <<app, ncalls, key, ret, attempt, citasVars, contexto_inflight>>
    /\ IF o = "raise" /\ RetryAgain(task[k].attempt) THEN
            /\ task' = [task EXCEPT ![k].st = "sleep", ![k].failed = TRUE]
            /\ UNCHANGED <<pc, inbox, contexto_cache, contexto_failures>>
       ELSE IF o = "raise" THEN
            /\ task' = [task EXCEPT ![k].st = "done", ![k].failed = TRUE, ![k].out = o]
            /\ contexto_failures' = ExhaustedFailures(k)
            /\ Deliver(k, None)
            /\ UNCHANGED contexto_cache
       ELSE IF o = "biz" THEN
            /\ task' = [task EXCEPT ![k].st = "done", ![k].out = o]
            /\ contexto_failures' = BizFailures(k)
            /\ Deliver(k, None)
            /\ UNCHANGED contexto_cache
       ELSE
            /\ task' = [task EXCEPT ![k].st = "done", ![k].out = o, ![k].res = OrNone(v)]
            /\ contexto_cache' = TTLSet(contexto_cache, k, v, ContextoTTL, NoEntry)
            /\ contexto_failures' = TTLPop(contexto_failures, k, NoFail)
            /\ Deliver(k, OrNone(v))

TaskBackoffDone(k) ==
    /\ app = "ventas"
    /\ UNCHANGED <<bookingVars, validatorVars>>
    /\ UNCHANGED call
    /\ task[k].st = "sleep"
    /\ task' = [task EXCEPT ![k].st = "fetch", ![k].attempt = @ + 1]
    /\ UNCHANGED <<app, ncalls, pc, key, ret, attempt, citasVars,
                   contexto_cache, contexto_failures, contexto_inflight, inbox>>

(* A caller resumes from `await task` (then runs its finally) or from      *)
(* `await asyncio.shield(...)`.                                            *)
Resume(p) ==
    /\ app = "ventas"
    /\ UNCHANGED <<bookingVars, validatorVars>>
    /\ UNCHANGED call
    /\ pc[p] \in {"own_rdy", "shield_rdy"}
    /\ IF inbox[p] = "cancelled"
          THEN Return(p, "cancelled", None)
          ELSE Return(p, IF pc[p] = "own_rdy" THEN "own" ELSE "shared", inbox[p])
    /\ inbox' = [inbox EXCEPT ![p] = None]
    /\ IF pc[p] = "own_rdy"
          THEN /\ contexto_inflight' = [contexto_inflight EXCEPT ![key[p]] = FALSE]
               /\ task' = [task EXCEPT ![key[p]] = NoTask]
          ELSE UNCHANGED <<contexto_inflight, task>>
    /\ UNCHANGED <<app, ncalls, key, attempt, citasVars, contexto_cache, contexto_failures>>

(* A suspended caller is cancelled.  Through shield the Task is left       *)
(* alone; the creator's `await task` passes the cancellation on to the     *)
(* Task, which ends cancelled for everybody awaiting it.                   *)
CancelContexto(p) ==
    /\ app = "ventas"
    /\ UNCHANGED <<bookingVars, validatorVars>>
    /\ UNCHANGED call
    /\ pc[p] \in {"own", "shield"}
    /\ UNCHANGED <<app, ncalls, key, attempt, citasVars, contexto_cache,
                   contexto_failures, contexto_inflight>>
    /\ IF CancelReachesTask(p) THEN
            /\ task' = [task EXCEPT ![key[p]].st = "cancelled"]
            /\ Deliver(key[p], "cancelled")
            /\ UNCHANGED ret
       ELSE
            /\ Return(p, "cancelled", None)
            /\ UNCHANGED <<task, inbox>>

-----------------------------------------------------------------------------
(* Dates and times as text.  A date string is its three numbers and the    *)
(* separator written between them; a time string is hour, minute and the   *)
(* suffix written after them ("" for none).                                *)

\* the value that stands for a text that does not parse
Fail == 0 - 1

IsLeap(y) == (y % 4 = 0 /\ y % 100 # 0) \/ y % 400 = 0

DaysIn(y, mo) ==
    IF mo \in {4, 6, 9, 11} THEN 30
    ELSE IF mo = 2 THEN (IF IsLeap(y) THEN 29 ELSE 28)
    ELSE 31

RECURSIVE DaysBeforeMonth(_, _)
DaysBeforeMonth(y, mo) == IF mo <= 1 THEN 0 ELSE DaysBeforeMonth(y, mo - 1) + DaysIn(y, mo - 1)

RECURSIVE DaysBeforeYear(_)
DaysBeforeYear(y) ==
    IF y <= 2025 THEN 0
    ELSE DaysBeforeYear(y - 1) + (IF IsLeap(y - 1) THEN 366 ELSE 365)

\* datetime.strptime(fecha_str, "%Y-%m-%d"): the day, counted from the first
\* day of 2025 (earlier years are not drawn), or Fail (ValueError)
ParseFecha(f) ==
    IF /\ f.sep = "-"
       /\ f.y >= 2025 /\ f.y <= 9999
       /\ f.mo \in 1..12
       /\ f.d >= 1 /\ f.d <= DaysIn(f.y, f.mo)
    THEN DaysBeforeYear(f.y) + DaysBeforeMonth(f.y, f.mo) + f.d - 1
    ELSE Fail

\* date.weekday(): 0 = Monday; the first day of 2025 is a Wednesday
Weekday(day) == (day + 2) % 7

\* str.upper() of the suffix
Upper(mer) ==
    IF mer \in {"am", "AM"} THEN "AM"
    ELSE IF mer \in {"pm", "PM"} THEN "PM"
    ELSE mer

\* ScheduleValidator._parse_time: "%I:%M %p", "%I:%M%p", then "%H:%M";
\* minutes since midnight, or Fail (None)
ParseTime(t) ==
    IF Upper(t.mer) \in {"AM", "PM"} THEN
        IF t.h \in 1..12 /\ t.m \in 0..59
            THEN ((t.h % 12) + (IF Upper(t.mer) = "PM" THEN 12 ELSE 0)) * 60 + t.m
            ELSE Fail
    ELSE IF t.mer = "" THEN
        IF t.h \in 0..23 /\ t.m \in 0..59 THEN t.h * 60 + t.m ELSE Fail
    ELSE Fail

\* booking._parse_time_to_24h: the hour of "HH:MM:00", or Fail (ValueError)
ParseTimeTo24h(t) ==
    IF Upper(t.mer) = "PM" /\ t.h # 12 THEN t.h + 12
    ELSE IF Upper(t.mer) = "AM" /\ t.h = 12 THEN 0
    ELSE IF Upper(t.mer) \in {"AM", "PM"} THEN t.h
    ELSE Fail

\* booking._build_fecha_inicio_fin: minutes from the start of 2025 to
\* fecha_inicio, or Fail (ValueError)
BuildFechaInicio(f, t) ==
    IF /\ ParseTimeTo24h(t) \in 0..23
       /\ t.m \in 0..59
       /\ ParseFecha(f) # Fail
    THEN ParseFecha(f) * 1440 + ParseTimeTo24h(t) * 60 + t.m
    ELSE Fail

-----------------------------------------------------------------------------
(* resilient_call on its own: the caller passes max_retries and            *)
(* backoff_base, the fetch function returns a value or raises.             *)

\* per caller: the two arguments, how many times coro_factory was invoked,
\* the sleeps made, last_exc, and the counter of the key as it was when the
\* call ended
NoCall == [maxr |-> 0, base |-> 0, invoked |-> 0, slept |-> <<>>,
           exc |-> None, before |-> 0]

lockVars == <<horario_cache, fetch_locks, lockWaiters, lockOf, streak, herd>>

\* line 68: `for attempt in range(max_retries)` has an iteration to run
HasAttempt(a, mr) == a < mr

\* variant: a sleep follows every failed attempt, the last one too
SleepsAfterEvery(a, mr) == a < mr

\* line 81: `if attempt < max_retries - 1`
SleepsAfter(a, mr) == a < mr - 1

\* line 82: backoff_base * (2 ** attempt)
Backoff(b, a) == b * 2^a

\* variant: the first exception is kept
FirstExc(old, new) == IF old = None THEN new ELSE old

\* line 75: `last_exc = exc`
LastExc(old, new) == new

\* line 93: `raise last_exc`; raising None is a TypeError
Raised(e) == IF e = None THEN "TypeError" ELSE e

\* what is kept of a call that ended
Ended(c, n) == [NoCall EXCEPT !.invoked = c.invoked, !.before = n]

\* lines 84-93: the loop is over, record the failure and raise
Exhaust(p, e) ==
    /\ failures' = OnExhausted(key[p])
    /\ Return(p, "raised", Raised(e))
    /\ call' = [call EXCEPT ![p] = Ended(call[p], FailureCount(failures, key[p]))]
    /\ attempt' = [attempt EXCEPT ![p] = 0]

\* the next iteration of the loop, or its end
NextAttempt(p, e) ==
    IF HasAttempt(attempt[p] + 1, call[p].maxr) THEN
        /\ attempt' = [attempt EXCEPT ![p] = @ + 1]
        /\ pc' = [pc EXCEPT ![p] = "rc_fetch"]
        /\ call' = [call EXCEPT ![p].exc = e, ![p].invoked = @ + 1]
        /\ UNCHANGED <<ret, failures>>
    ELSE Exhaust(p, e)

ResilientCall(p, k, mr, b) ==
    /\ app = "call"
    /\ UNCHANGED <<bookingVars, validatorVars>>
    /\ pc[p] = "idle"
    /\ ncalls < MaxCalls
    /\ ncalls' = ncalls + 1
    /\ key' = [key EXCEPT ![p] = k]
    /\ attempt' = [attempt EXCEPT ![p] = 0]
    /\ UNCHANGED <<app, lockVars, ventasVars>>
    /\ LET c == [NoCall EXCEPT !.maxr = mr, !.base = b] IN
       IF CircuitRejects(k) THEN
            /\ Return(p, "circuit", None)
            /\ call' = [call EXCEPT ![p] = Ended(c, FailureCount(failures, k))]
            /\ UNCHANGED failures
       ELSE IF HasAttempt(0, mr) THEN
            /\ pc' = [pc EXCEPT ![p] = "rc_fetch"]
            /\ ret' = [ret EXCEPT ![p] = RetNone]
            /\ call' = [call EXCEPT ![p] = [c EXCEPT !.invoked = 1]]
            /\ UNCHANGED failures
       ELSE
            /\ failures' = OnExhausted(k)
            /\ Return(p, "raised", Raised(None))
            /\ call' = [call EXCEPT ![p] = Ended(c, FailureCount(failures, k))]

(* lines 70-73: the attempt in flight returns v *)
CallReturns(p, v) ==
    /\ app = "call"
    /\ UNCHANGED <<bookingVars, validatorVars>>
    /\ pc[p] = "rc_fetch"
    /\ failures' = OnReturn(key[p])
    /\ Return(p, "ok", v)
    /\ call' = [call EXCEPT ![p] = Ended(call[p], FailureCount(failures, key[p]))]
    /\ attempt' = [attempt EXCEPT ![p] = 0]
    /\ UNCHANGED <<app, ncalls, key, lockVars, ventasVars>>

(* lines 74-82: the attempt in flight raises e *)
CallRaises(p, e) ==
    /\ app = "call"
    /\ UNCHANGED <<bookingVars, validatorVars>>
    /\ pc[p] = "rc_fetch"
    /\ UNCHANGED <<app, ncalls, key, lockVars, ventasVars>>
    /\ LET x == LastExc(call[p].exc, e) IN
       IF SleepsAfter(attempt[p], call[p].maxr) THEN
            /\ pc' = [pc EXCEPT ![p] = "rc_sleep"]
            /\ call' = [call EXCEPT ![p].exc = x,
                           ![p].slept = Append(@, Backoff(call[p].base, attempt[p]))]
            /\ UNCHANGED <<ret, attempt, failures>>
       ELSE NextAttempt(p, x)

(* the sleep of line 82 is over *)
CallBackoffDone(p) ==
    /\ app = "call"
    /\ UNCHANGED <<bookingVars, validatorVars>>
    /\ pc[p] = "rc_sleep"
    /\ NextAttempt(p, call[p].exc)
    /\ UNCHANGED <<app, ncalls, key, lockVars, ventasVars>>

-----------------------------------------------------------------------------
(* confirm_booking (citas_ventas/services/booking.py).  key[p] is the      *)
(* tenant on whose behalf the booking tool calls it; the function itself   *)
(* takes no tenant.                                                         *)

\* the texts the agent may pass as fecha and hora
Fecha(y, mo, d, sep) == [y |-> y, mo |-> mo, d |-> d, sep |-> sep]

Hora(h, m, mer) == [h |-> h, m |-> m, mer |-> mer]

Fechas == {Fecha(2026, 11, 4, "-"), Fecha(2026, 11, 5, "-"), Fecha(2026, 11, 6, "-"),
           Fecha(2026, 2, 30, "-"), Fecha(2026, 11, 6, "/")}

Horas == {Hora(9, 0, "AM"), Hora(3, 30, "pm"), Hora(15, 30, ""),
          Hora(13, 0, "PM"), Hora(24, 0, "")}

\* line 115: the key under which confirm_booking consults and feeds
\* calendario_cb
BookingCircuitKey(k) == "global"

\* calendario_cb.is_open
calendario_is_open(k) == FailureCount(calendario_failures, k) >= FAILURE_THRESHOLD

\* a transport failure met while booking for tenant k (history)
TransportFailed(k) ==
    [transport_failed EXCEPT ![k] = Min(@ + 1, FAILURE_THRESHOLD)]

\* variant: the POST is sent whatever the state of the circuit
BookingFailsFastNever(k) == FALSE

\* line 115: `if calendario_cb.is_open("global")`
BookingFailsFast(k) == calendario_is_open(BookingCircuitKey(k))

(* lines 86-136: up to the await of the POST, for any caller *)
CallConfirmBooking(p, k, f, t) ==
    /\ pc[p] = "idle"
    /\ key' = [key EXCEPT ![p] = k]
    /\ IF BuildFechaInicio(f, t) = Fail THEN Return(p, "invalid_datetime", None)
       ELSE IF BookingFailsFast(k) THEN Return(p, "circuit_open", None)
       ELSE /\ pc' = [pc EXCEPT ![p] = "bk_post"]
            /\ ret' = [ret EXCEPT ![p] = RetNone]
    /\ UNCHANGED <<app, attempt, call, citasVars, ventasVars, bookingVars>>

\* confirm_booking called on its own
ConfirmBooking(p, k, f, t) ==
    /\ app = "booking"
    /\ ncalls < MaxCalls
    /\ ncalls' = ncalls + 1
    /\ CallConfirmBooking(p, k, f, t)
    /\ UNCHANGED validatorVars

(* lines 137-206: the POST returns or raises *)
CallBookingResponse(p, o) ==
    /\ pc[p] = "bk_post"
    /\ LET g == BookingCircuitKey(key[p]) IN
       CASE o = "ok" ->
                /\ calendario_failures' = record_success(calendario_failures, g)
                /\ Return(p, "ok", None)
                /\ UNCHANGED transport_failed
         [] o = "biz" ->
                /\ Return(p, "api_error", None)
                /\ UNCHANGED bookingVars
         [] o \in {"timeout", "connect"} ->
                /\ calendario_failures' = record_failure(calendario_failures, g)
                /\ transport_failed' = TransportFailed(key[p])
                /\ Return(p, o, None)
         [] o \in {"http_status", "other"} ->
                /\ Return(p, o, None)
                /\ UNCHANGED bookingVars
    /\ UNCHANGED <<app, ncalls, key, attempt, call, citasVars, ventasVars>>

BookingResponse(p, o) ==
    /\ app = "booking"
    /\ CallBookingResponse(p, o)
    /\ UNCHANGED validatorVars

-----------------------------------------------------------------------------
(* ScheduleValidator.validate (citas_ventas/services/schedule_validator.py). *)
(* An instant is a number of minutes from the start of 2025.                *)

\* __init__, line 60: duracion_cita_minutos
duracion_minutos == 60

\* line 50: the offset from UTC of app_config.TIMEZONE (America/Lima), in
\* minutes
ZonaPeru == 0 - 300

\* the offsets from UTC of the zones the host machine may be set to when
\* validate is called
HostOffsets == {0 - 480, 540}

Instant(f, t) == ParseFecha(f) * 1440 + ParseTime(t)

\* the instant, in UTC, at which validate is observed: 22:30 of the day
\* before in Lima
UtcNows == {Instant(Fecha(2026, 11, 6, "-"), Hora(3, 30, ""))}

\* the tenant whose bookings are validated
ValKeys == {"e1"}

\* the applications that run ScheduleValidator.validate
ValidatorApps == {"validator", "tool"}

\* the applications that run ScheduleValidator.recommendation
RecommendApps == {"recommend", "tool"}

\* the caller of validate when calls do not overlap
Solo == {1}

\* the requests made when calls overlap
Overlapping ==
    {<<Fecha(2026, 11, 6, "-"), Hora(10, 0, "AM")>>,
     <<Fecha(2026, 11, 7, "-"), Hora(10, 0, "AM")>>}

\* the (fecha_str, hora_str) pairs the booking tool passes
Requests ==
    {<<Fecha(2026, 2, 30, "-"), Hora(10, 0, "AM")>>,
     <<Fecha(2026, 11, 6, "/"), Hora(13, 0, "PM")>>,
     <<Fecha(2026, 11, 4, "-"), Hora(24, 0, "")>>,
     <<Fecha(2026, 11, 4, "-"), Hora(3, 30, "pm")>>,
     <<Fecha(2026, 11, 5, "-"), Hora(10, 30, "PM")>>,
     <<Fecha(2026, 11, 6, "-"), Hora(1, 0, "AM")>>,
     <<Fecha(2026, 11, 6, "-"), Hora(18, 0, "")>>,
     <<Fecha(2026, 11, 6, "-"), Hora(5, 30, "PM")>>,
     <<Fecha(2026, 11, 6, "-"), Hora(12, 30, "PM")>>,
     <<Fecha(2026, 11, 6, "-"), Hora(10, 0, "AM")>>,
     <<Fecha(2026, 11, 6, "-"), Hora(9, 0, "AM")>>,
     <<Fecha(2026, 11, 6, "-"), Hora(11, 30, "AM")>>,
     <<Fecha(2026, 11, 6, "-"), Hora(2, 0, "PM")>>,
     <<Fecha(2026, 11, 6, "-"), Hora(5, 0, "PM")>>,
     <<Fecha(2026, 11, 6, "-"), Hora(5, 1, "PM")>>,
     <<Fecha(2026, 11, 7, "-"), Hora(10, 0, "AM")>>,
     <<Fecha(2026, 11, 8, "-"), Hora(10, 0, "AM")>>,
     <<Fecha(2026, 11, 9, "-"), Hora(10, 0, "AM")>>,
     <<Fecha(2026, 11, 10, "-"), Hora(10, 0, "AM")>>}

\* the text of one day of a schedule: lit is the text when it holds no
\* times (None when the field is missing), parts are the times found between
\* its hyphens
DayText(lit, parts) == [lit |-> lit, parts |-> parts]

DayAbsent == DayText(None, <<>>)

\* an entry of horarios_bloqueados: a date and a range of times, written as
\* an object with fecha, inicio and fin ("dict") or as one text, the date
\* followed by the range ("str")
Bloqueo(kind, f, ini, fin) == [kind |-> kind, f |-> f, ini |-> ini, fin |-> fin]

\* the schedules the upstream may return, by weekday (0 = Monday)
Horario(v) ==
    IF v = "hA" THEN
        [dias |-> [d \in 0..6 |->
                    IF d = 4 THEN DayText("a-b", <<Hora(9, 0, ""), Hora(18, 0, "")>>)
                    ELSE IF d = 5 THEN DayText("Cerrado", <<>>)
                    ELSE IF d = 0 THEN DayText("a-b", <<Hora(9, 0, "AM"), Hora(6, 0, "PM")>>)
                    ELSE IF d = 1 THEN DayText("n/a", <<>>)
                    ELSE DayAbsent],
         bloqueados |-> {Bloqueo("dict", Fecha(2026, 11, 6, "-"), Hora(12, 0, ""), Hora(13, 0, ""))}]
    ELSE
        [dias |-> [d \in 0..6 |->
                    IF d = 4 THEN DayText("a-b", <<Hora(9, 0, ""), Hora(25, 0, "")>>)
                    ELSE IF d = 5 THEN DayText("a-b", <<Hora(10, 0, "AM"), Hora(11, 30, "AM")>>)
                    ELSE IF d = 0 THEN DayText("", <<>>)
                    ELSE IF d = 1
                        THEN DayText("a-b-c", <<Hora(9, 0, ""), Hora(13, 0, ""), Hora(18, 0, "")>>)
                    ELSE DayText(" ", <<>>)],
         bloqueados |-> {Bloqueo("str", Fecha(2026, 11, 7, "-"), Hora(10, 0, ""), Hora(10, 30, ""))}]

\* variant: the text is stripped and compared as written
StripOnly(lit) ==
    IF lit = " " THEN "" ELSE lit

\* line 291: horario_dia.strip().upper()
StripUpper(lit) ==
    IF lit = "Cerrado" THEN "CERRADO"
    ELSE IF lit = "n/a" THEN "N/A"
    ELSE IF lit = " " THEN ""
    ELSE lit

\* line 292
ClosedMarkers == {"NO DISPONIBLE", "CERRADO", "NO ATIENDE", "-", "N/A", ""}

\* _parse_time_range, lines 98-124
ParseTimeRange(parts) ==
    IF Len(parts) = 2 /\ ParseTime(parts[1]) # Fail /\ ParseTime(parts[2]) # Fail
        THEN [ok |-> TRUE, ini |-> ParseTime(parts[1]), fin |-> ParseTime(parts[2])]
        ELSE [ok |-> FALSE, ini |-> Fail, fin |-> Fail]

\* lines 156 and 165: inicio.time() <= hora.time() < fin.time()
InBlockedRange(hora, ini, fin) == ini <= hora /\ hora < fin

\* _is_time_blocked, lines 126-172
IsTimeBlocked(f, hora, bloqueados) ==
    \E b \in bloqueados :
        /\ ParseFecha(b.f) = ParseFecha(f)
        /\ IF b.kind = "dict"
              THEN /\ ParseTime(b.ini) # Fail /\ ParseTime(b.fin) # Fail
                   /\ InBlockedRange(hora, ParseTime(b.ini), ParseTime(b.fin))
              ELSE LET rango == ParseTimeRange(<<b.ini, b.fin>>)
                   IN  rango.ok /\ InBlockedRange(hora, rango.ini, rango.fin)

\* variant: the clock of the host machine is read
AhoraHost(utc, host) == utc + host

\* line 270: datetime.now(_ZONA_PERU).replace(tzinfo=None)
Ahora(utc, host) == utc + ZonaPeru

\* variant: the time is parsed before the date
PreChecksTimeFirst(f, t, ahora) ==
    IF ParseTime(t) = Fail THEN "bad_time"
    ELSE IF ParseFecha(f) = Fail THEN "bad_date"
    ELSE IF Instant(f, t) <= ahora THEN "passed"
    ELSE "go"

\* lines 255-272: the checks made before anything is fetched
PreChecks(f, t, ahora) ==
    IF ParseFecha(f) = Fail THEN "bad_date"
    ELSE IF ParseTime(t) = Fail THEN "bad_time"
    ELSE IF Instant(f, t) <= ahora THEN "passed"
    ELSE "go"

\* lines 284-285: dias_semana[dia_semana]
NombreDia(d) ==
    <<"lunes", "martes", "miercoles", "jueves", "viernes", "sabado", "domingo">>[d + 1]

\* the verdicts whose message names the day (lines 288, 293, 306, 309, 318)
DayReasons == {"no_schedule", "closed", "before", "after", "overflow"}

\* the day a verdict on the request for date f names, None when it names
\* none
NamedDay(f, v) ==
    IF v \in DayReasons THEN NombreDia(Weekday(ParseFecha(f))) ELSE None

\* variant: no schedule, no booking
NoScheduleRejects(v) == "no_schedule"

\* lines 276-278: `if not schedule`
NoSchedule(v) == "valid"

\* variant: a day whose hours cannot be read is a day without attention
UnparsedRangeRejects(dia) == "closed"

\* lines 296-299: `if not rango`
UnparsedRange(dia) == "valid"

\* line 305
BeforeOpen(hora, ini) == hora < ini

\* variant: the closing minute is still inside the hours
AfterCloseExclusive(hora, fin) == hora > fin

\* line 308
AfterClose(hora, fin) == hora >= fin

\* variant: an appointment may not end at the closing minute
OverflowsAtClose(hora, fin) == hora + duracion_minutos >= fin

\* lines 312-315: hora_fin_cita > hora_cierre
Overflows(hora, fin) == hora + duracion_minutos > fin

\* lines 276-324: the checks made on the schedule get_horario returned
ScheduleChecks(f, t, v) ==
    IF v = None THEN NoSchedule(v)
    ELSE
        LET dia  == Horario(v).dias[Weekday(ParseFecha(f))]
            hora == ParseTime(t)
        IN  IF dia.lit \in {None, ""} THEN "no_schedule"
            ELSE IF StripUpper(dia.lit) \in ClosedMarkers THEN "closed"
            ELSE LET rango == ParseTimeRange(dia.parts) IN
                IF ~ rango.ok THEN UnparsedRange(dia)
                ELSE IF BeforeOpen(hora, rango.ini) THEN "before"
                ELSE IF AfterClose(hora, rango.fin) THEN "after"
                ELSE IF Overflows(hora, rango.fin) THEN "overflow"
                ELSE IF IsTimeBlocked(f, hora, Horario(v).bloqueados) THEN "blocked"
                ELSE "go"

\* the answers to CONSULTAR_DISPONIBILIDAD: a free slot, an occupied one,
\* success:false, and the exceptions of lines 232-240
AvailOutcomes == {"disponible", "ocupado", "biz", "timeout", "http", "other"}

\* variant: an exception rejects the slot
AvailableStrict(o) == o \in {"disponible", "biz"}

\* _check_availability, lines 220-240: the value of "available"
Available(o) == o # "ocupado"

NoFecha == Fecha(0, 0, 0, "")

NoHora == Hora(0, 0, "")

\* one validate call: where it is, its arguments, what get_horario gave it
\* (while it runs), its verdict and the day its message names, whether
\* get_horario and the availability query were called, and the failure
\* counter of its tenant as the call began (until get_horario returns)
NoReq == [st |-> "none", f |-> NoFecha, t |-> NoHora, verdict |-> None, dia |-> None,
          horario |-> None, fetched |-> FALSE, queried |-> FALSE, before |-> 0]

\* what is kept of a validate call that returned v
Verdict(r, v) ==
    [NoReq EXCEPT !.st = "done", !.verdict = v, !.dia = NamedDay(r.f, v),
                  !.f = r.f, !.t = r.t,
                  !.fetched = r.fetched, !.queried = r.queried]

(* lines 255-275: from the entry of validate into get_horario, for any     *)
(* caller                                                                  *)
CallValidate(p, k, f, t, host_tz) ==
    /\ pc[p] = "idle"
    /\ req[p].st \in {"none", "done"}
    /\ ncalls < MaxCalls
    /\ UNCHANGED <<utc_now, rec>>
    /\ LET v == PreChecks(f, t, Ahora(utc_now, host_tz))
           r == [NoReq EXCEPT !.f = f, !.t = t, !.before = FailureCount(failures, k)]
       IN  IF v # "go" THEN
                /\ req' = [req EXCEPT ![p] = Verdict(r, v)]
                /\ ncalls' = ncalls + 1
                /\ key' = [key EXCEPT ![p] = k]
                /\ ret' = [ret EXCEPT ![p] = RetNone]
                /\ UNCHANGED <<app, pc, attempt, call, citasVars, ventasVars, bookingVars>>
           ELSE
                /\ req' = [req EXCEPT ![p] = [r EXCEPT !.st = "horario", !.fetched = TRUE]]
                /\ CallGetHorario(p, k)

\* validate called on its own
Validate(p, k, f, t, host_tz) ==
    /\ app = "validator"
    /\ CallValidate(p, k, f, t, host_tz)
    /\ UNCHANGED tool

(* lines 276-327: get_horario has returned; on to the availability query *)
ValidateHorario(p) ==
    /\ app \in ValidatorApps
    /\ pc[p] = "idle"
    /\ req[p].st = "horario"
    /\ LET v == ScheduleChecks(req[p].f, req[p].t, ret[p].val)
           r == [req[p] EXCEPT !.horario = ret[p].val, !.before = 0]
       IN  IF v # "go" THEN
                /\ req' = [req EXCEPT ![p] = Verdict(r, v)]
                /\ UNCHANGED pc
           ELSE
                /\ req' = [req EXCEPT ![p] = [r EXCEPT !.st = "avail", !.queried = TRUE]]
                /\ pc' = [pc EXCEPT ![p] = "vd_avail"]
    /\ UNCHANGED <<app, ncalls, key, ret, attempt, call, citasVars, ventasVars,
                   bookingVars, utc_now, rec, tool>>

(* lines 327-332: post_with_retry returns or raises *)
AvailabilityResponse(p, o) ==
    /\ app \in ValidatorApps
    /\ pc[p] = "vd_avail"
    /\ req' = [req EXCEPT ![p] = Verdict(@, IF Available(o) THEN "valid" ELSE "occupied")]
    /\ pc' = [pc EXCEPT ![p] = "idle"]
    /\ UNCHANGED <<app, ncalls, key, ret, attempt, call, citasVars, ventasVars,
                   bookingVars, utc_now, rec, tool>>

-----------------------------------------------------------------------------
(* ScheduleValidator.recommendation (schedule_validator.py, lines 334-439) *)

\* an optional text argument: kind is "None", "empty" (""), "blank" (only
\* spaces) or "text", and val is what the text reads
Arg(kind, val) == [kind |-> kind, val |-> val]

\* the values the agent may pass as fecha_solicitada: none, today, tomorrow
\* and the day after in Lima, a day months ago, a date written with slashes,
\* spaces
RecFechas ==
    {Arg("None", NoFecha), Arg("blank", NoFecha),
     Arg("text", Fecha(2026, 11, 5, "-")), Arg("text", Fecha(2026, 11, 6, "-")),
     Arg("text", Fecha(2026, 11, 7, "-")), Arg("text", Fecha(2026, 3, 5, "-")),
     Arg("text", Fecha(2026, 11, 6, "/"))}

\* the values the agent may pass as hora_solicitada
RecHoras ==
    {Arg("None", NoHora), Arg("empty", NoHora), Arg("blank", NoHora),
     Arg("text", Hora(10, 0, "AM")), Arg("text", Hora(25, 0, ""))}

\* the truth value of an optional text
Truthy(a) == a.kind \in {"blank", "text"}

\* the truth value of a.strip()
NonBlank(a) == a.kind = "text"

\* datetime.strptime(a.strip(), "%Y-%m-%d"): the day, or Fail
RecFecha(a) == IF a.kind = "text" THEN ParseFecha(a.val) ELSE Fail

\* _parse_time(a.strip())
RecHora(a) == IF a.kind = "text" THEN ParseTime(a.val) ELSE Fail

\* line 356
ExactSlotAsked(f, t) == Truthy(f) /\ Truthy(t) /\ NonBlank(t)

\* variant: the clock is read in UTC
NowUtc(utc) == utc

\* line 351: datetime.now(_ZONA_PERU)
NowPeru(utc) == utc + ZonaPeru

\* lines 352-353: hoy_iso and manana_iso, as days
HoyManana(utc) == {NowPeru(utc) \div 1440, NowPeru(utc) \div 1440 + 1}

\* lines 372-379: a date that is read and is neither today nor tomorrow
OtherDay(f, utc) ==
    Truthy(f) /\ RecFecha(f) # Fail /\ RecFecha(f) \notin HoyManana(utc)

\* variant: an occupied slot leads on to the suggestions
ExactSlotAnswerSuggests(o) ==
    IF Available(o) THEN "confirm" ELSE "flujo_normal"

\* lines 359-366: the answer drawn from the availability of the exact slot
ExactSlotAnswer(o) ==
    IF Available(o) THEN "confirm" ELSE "occupied_offer"

\* the answers to SUGERIR_HORARIOS: suggestions that can be listed,
\* suggestions none of which has a day and a time, none at all, success:false,
\* and the exceptions of lines 433-436
SugerirOutcomes == {"sugerencias", "unusable", "vacio", "biz", "timeout", "http", "other"}

\* variant: only the errors of the HTTP client are caught
OnSugerirErrorNarrow(o) == IF o = "other" THEN "raised" ELSE "fallback"

\* lines 433-439: what an exception of the POST leads to
OnSugerirError(o) == "fallback"

\* lines 396-439: the text returned after the answer to SUGERIR_HORARIOS
SugerirAnswer(o) ==
    IF o = "sugerencias" THEN "sugerencias"
    ELSE IF o \in {"timeout", "http", "other"} THEN OnSugerirError(o)
    ELSE "fallback"

\* one recommendation call: where it is, its arguments, the text it
\* returned, and how many times it posted the availability query and the
\* slot-suggestion query
NoRec == [st |-> "none", f |-> Arg("None", NoFecha), t |-> Arg("None", NoHora),
          text |-> None, asked |-> 0, sugs |-> 0]

\* lines 371-394: the flow after the exact slot, up to the await of the POST
FlujoNormal(p, r) ==
    IF OtherDay(r.f, utc_now) THEN
        /\ rec' = [rec EXCEPT ![p] = [r EXCEPT !.st = "done", !.text = "give_time"]]
        /\ pc' = [pc EXCEPT ![p] = "idle"]
    ELSE
        /\ rec' = [rec EXCEPT ![p] = [r EXCEPT !.st = "sugerir", !.sugs = @ + 1]]
        /\ pc' = [pc EXCEPT ![p] = "rc_sugerir"]

(* lines 351-394: from the entry of recommendation to its first await,     *)
(* for any caller                                                          *)
CallRecommendation(p, f, t) ==
    /\ pc[p] = "idle"
    /\ ncalls < MaxCalls
    /\ ncalls' = ncalls + 1
    /\ LET r == [NoRec EXCEPT !.f = f, !.t = t] IN
       IF ExactSlotAsked(f, t) THEN
            IF RecFecha(f) = Fail \/ RecHora(t) = Fail THEN
                \* _check_availability, lines 188-191 and 238-240
                /\ rec' = [rec EXCEPT ![p] =
                            [r EXCEPT !.st = "done", !.text = ExactSlotAnswer("other")]]
                /\ pc' = [pc EXCEPT ![p] = "idle"]
            ELSE
                /\ rec' = [rec EXCEPT ![p] = [r EXCEPT !.st = "avail", !.asked = @ + 1]]
                /\ pc' = [pc EXCEPT ![p] = "rc_avail"]
       ELSE FlujoNormal(p, r)
    /\ UNCHANGED <<app, key, ret, attempt, call, citasVars, ventasVars, bookingVars,
                   req, utc_now>>

\* recommendation called on its own
Recommendation(p, f, t) ==
    /\ app = "recommend"
    /\ CallRecommendation(p, f, t)
    /\ UNCHANGED tool

(* lines 358-369: the availability query returns or raises *)
RecAvailability(p, o) ==
    /\ app \in RecommendApps
    /\ pc[p] = "rc_avail"
    /\ IF ExactSlotAnswer(o) = "flujo_normal" THEN FlujoNormal(p, rec[p])
       ELSE /\ rec' = [rec EXCEPT ![p] = [@ EXCEPT !.st = "done", !.text = ExactSlotAnswer(o)]]
            /\ pc' = [pc EXCEPT ![p] = "idle"]
    /\ UNCHANGED <<app, ncalls, key, ret, attempt, call, citasVars, ventasVars,
                   bookingVars, req, utc_now, tool>>

(* lines 392-439: the slot-suggestion query returns or raises *)
RecSugerir(p, o) ==
    /\ app \in RecommendApps
    /\ pc[p] = "rc_sugerir"
    /\ rec' = [rec EXCEPT ![p] =
                [@ EXCEPT !.st = IF SugerirAnswer(o) = "raised" THEN "raised" ELSE "done",
                          !.text = IF SugerirAnswer(o) = "raised" THEN None
                                   ELSE SugerirAnswer(o)]]
    /\ pc' = [pc EXCEPT ![p] = "idle"]
    /\ UNCHANGED <<app, ncalls, key, ret, attempt, call, citasVars, ventasVars,
                   bookingVars, req, utc_now, tool>>

-----------------------------------------------------------------------------
(* The agent's tools (citas_ventas/tool/tools.py): check_availability on   *)
(* top of recommendation; create_booking on top of validate_booking_data,  *)
(* validate and confirm_booking.                                           *)

\* one call of a tool: where it is, which tool, its date and time and
\* whether validate_booking_data passed (while it runs), what it returned
\* to the agent, and how many create-event requests it sent; the frames of
\* validate and recommendation (req, rec) end with the call
NoTool == [st |-> "none", op |-> "none", f |-> NoFecha, t |-> NoHora,
           datos |-> FALSE, reply |-> None, posted |-> 0]

\* the dates the agent may pass to a tool: spaces, yesterday, today and
\* tomorrow in Lima, a date written with slashes
ToolFechas ==
    {Arg("blank", NoFecha),
     Arg("text", Fecha(2026, 11, 4, "-")), Arg("text", Fecha(2026, 11, 5, "-")),
     Arg("text", Fecha(2026, 11, 6, "-")), Arg("text", Fecha(2026, 11, 6, "/"))}

\* the times the agent may pass to create_booking
ToolHoras == {Hora(10, 0, "AM"), Hora(15, 30, ""), Hora(1, 0, "AM"), Hora(24, 0, "")}

\* the zone of the host on which the tools run
ToolHost == CHOOSE h \in HostOffsets : TRUE

\* what the tools return to the agent: the texts of lines 244 and 320, 346,
\* 365, 403, 407, 411, 272, 275 and 279
ToolTexts == {"fecha_invalida", "datos_invalidos", "horario_invalido", "confirmada",
              "no_confirmada", "error_inesperado", "recomendacion",
              "consulta_directamente", "horarios_tipicos"}

\* validation.validate_date_format on the text the agent passed
ValidateDateFormat(a) == NonBlank(a) /\ ParseFecha(a.val) # Fail

\* validation._check_date: a date that is read and is not before today in
\* Lima
CheckDate(f, utc) == ParseFecha(f) # Fail /\ ParseFecha(f) >= NowPeru(utc) \div 1440

\* validation._check_time: "%I:%M %p", "%I:%M%p", then "%H:%M"
CheckTime(t) == ParseTime(t) # Fail

\* validation.validate_booking_data; persona tells whether customer_name
\* and customer_contact pass _check_name and _check_email
ValidateBookingData(f, t, persona, utc) == CheckDate(f, utc) /\ CheckTime(t) /\ persona

\* variant: the booking goes on whatever validate answered
ValidationAllowsAll(v) == TRUE

\* line 363: `if not validation["valid"]`
ValidationAllows(v) == v = "valid"

\* lines 385-407: the text drawn from the result of confirm_booking
BookingReply(how) == IF how = "ok" THEN "confirmada" ELSE "no_confirmada"

\* variant: the tools catch nothing
OnToolErrorUncaught(op) == "propagated"

\* lines 277-279 and 409-411: `except Exception`
OnToolError(op) ==
    IF op = "check_availability" THEN "horarios_tipicos" ELSE "error_inesperado"

\* the tool returns text to the agent: what is kept of the call
Reply(c, text) ==
    [NoTool EXCEPT !.st = "done", !.op = c.op, !.reply = text, !.posted = c.posted]

\* a tool returns before it called anything
ToolReturnsAtOnce(p, c, text) ==
    /\ tool' = [tool EXCEPT ![p] = Reply(c, text)]
    /\ ncalls' = ncalls + 1
    /\ UNCHANGED <<app, pc, key, ret, attempt, call, citasVars, ventasVars, bookingVars,
                   req, utc_now, rec>>

(* create_booking, lines 315-360: from its entry into validate *)
CreateBooking(p, k, a, t, persona) ==
    /\ app = "tool"
    /\ pc[p] = "idle"
    /\ tool[p].st \in {"none", "done"}
    /\ ncalls < MaxToolCalls
    /\ LET c == [NoTool EXCEPT !.op = "create_booking", !.f = a.val, !.t = t] IN
       IF ~ ValidateDateFormat(a) THEN ToolReturnsAtOnce(p, c, "fecha_invalida")
       ELSE IF ~ ValidateBookingData(a.val, t, persona, utc_now)
            THEN ToolReturnsAtOnce(p, c, "datos_invalidos")
       ELSE /\ tool' = [tool EXCEPT ![p] = [c EXCEPT !.st = "validating", !.datos = TRUE]]
            /\ CallValidate(p, k, a.val, t, ToolHost)

(* schedule_validator.py, lines 283-291, under create_booking: the schedule *)
(* get_horario returned has a field that is no text, validate raises and   *)
(* the tool catches it.                                                     *)
ToolValidateRaises(p) ==
    /\ app = "tool"
    /\ pc[p] = "idle"
    /\ tool[p].st = "validating"
    /\ req[p].st = "horario"
    /\ ret[p].val # None
    /\ req' = [req EXCEPT ![p] = NoReq]
    /\ tool' = [tool EXCEPT ![p] = Reply(@, OnToolError(@.op))]
    /\ UNCHANGED <<app, ncalls, pc, key, ret, attempt, call, citasVars, ventasVars,
                   bookingVars, utc_now, rec>>

(* create_booking, lines 361-381: validate has returned; on to              *)
(* confirm_booking, up to the await of its POST.  sesion tells whether      *)
(* line 369 can be evaluated (ctx.session_id).                              *)
ToolValidated(p, sesion) ==
    /\ app = "tool"
    /\ pc[p] = "idle"
    /\ tool[p].st = "validating"
    /\ req[p].st = "done"
    /\ IF ~ ValidationAllows(req[p].verdict) THEN
            /\ tool' = [tool EXCEPT ![p] = Reply(@, "horario_invalido")]
            /\ UNCHANGED <<app, pc, key, ret, attempt, call, citasVars, ventasVars,
                           bookingVars>>
       ELSE IF ~ sesion THEN
            /\ tool' = [tool EXCEPT ![p] = Reply(@, OnToolError(@.op))]
            /\ UNCHANGED <<app, pc, key, ret, attempt, call, citasVars, ventasVars,
                           bookingVars>>
       ELSE
            /\ CallConfirmBooking(p, key[p], tool[p].f, tool[p].t)
            /\ tool' = [tool EXCEPT ![p] =
                          IF pc'[p] = "bk_post"
                              THEN [@ EXCEPT !.st = "booking", !.posted = @ + 1]
                              ELSE Reply(@, BookingReply(ret'[p].how))]
    /\ req' = [req EXCEPT ![p] = NoReq]
    /\ UNCHANGED <<ncalls, utc_now, rec>>

(* create_booking, lines 383-407: confirm_booking has returned *)
ToolBookingResponse(p, o) ==
    /\ app = "tool"
    /\ tool[p].st = "booking"
    /\ CallBookingResponse(p, o)
    /\ tool' = [tool EXCEPT ![p] = Reply(@, BookingReply(ret'[p].how))]
    /\ UNCHANGED <<req, utc_now, rec>>

(* check_availability, lines 240-268: from its entry into recommendation *)
CheckAvailability(p, a, t) ==
    /\ app = "tool"
    /\ pc[p] = "idle"
    /\ tool[p].st \in {"none", "done"}
    /\ ncalls < MaxToolCalls
    /\ LET c == [NoTool EXCEPT !.op = "check_availability", !.f = a.val, !.t = t.val] IN
       IF ~ ValidateDateFormat(a) THEN ToolReturnsAtOnce(p, c, "fecha_invalida")
       ELSE /\ tool' = [tool EXCEPT ![p] = [c EXCEPT !.st = "recommending"]]
            /\ CallRecommendation(p, a, IF NonBlank(t) THEN t ELSE Arg("None", NoHora))

(* check_availability, lines 270-279: recommendation has returned or raised *)
ToolRecommended(p) ==
    /\ app = "tool"
    /\ pc[p] = "idle"
    /\ tool[p].st = "recommending"
    /\ rec[p].st \in {"done", "raised"}
    /\ tool' = [tool EXCEPT ![p] =
                  Reply(@, IF rec[p].st = "raised" THEN OnToolError(@.op)
                           ELSE IF rec[p].text # None THEN "recomendacion"
                           ELSE "consulta_directamente")]
    /\ rec' = [rec EXCEPT ![p] = NoRec]
    /\ UNCHANGED <<app, ncalls, pc, key, ret, attempt, call, citasVars, ventasVars,
                   bookingVars, req, utc_now>>

(* Time passes: one tick of the TTLCache timers. *)
Tick ==
    /\ \/ \E k \in Keys : TTLHas(horario_cache, k) \/ TTLHas(failures, k)
       \/ \E k \in Keys : TTLHas(contexto_cache, k) \/ TTLHas(contexto_failures, k)
       \/ \E k \in CalKeys : TTLHas(calendario_failures, k)
    /\ horario_cache' = TTLAge(horario_cache)
    /\ failures' = TTLAge(failures)
    /\ contexto_cache' = TTLAge(contexto_cache)
    /\ contexto_failures' = TTLAge(contexto_failures)
    /\ calendario_failures' = TTLAge(calendario_failures)
    /\ herd' = [k \in Keys |-> HerdNone]
    /\ UNCHANGED <<app, ncalls, pc, key, ret, attempt, lockOf, fetch_locks,
                   lockWaiters, streak, contexto_inflight, task, inbox, call,
                   transport_failed, validatorVars>>

-----------------------------------------------------------------------------
Init ==
    /\ app \in {"citas", "ventas", "call", "booking", "validator", "recommend", "tool"}
    /\ ncalls = 0
    /\ pc = [p \in Procs |-> "idle"]
    /\ key = [p \in Procs |-> NoKey]
    /\ ret = [p \in Procs |-> RetNone]
    /\ attempt = [p \in Procs |-> 0]
    /\ lockOf = [p \in Procs |-> NoLock]
    /\ horario_cache = [k \in Keys |-> NoEntry]
    /\ failures = [k \in Keys |-> NoFail]
    /\ fetch_locks = [k \in Keys |-> NoLock]
    /\ lockWaiters = [l \in LockIds |-> <<>>]
    /\ streak = [k \in Keys |-> Streak0]
    /\ herd = [k \in Keys |-> HerdNone]
    /\ contexto_cache = [k \in Keys |-> NoEntry]
    /\ contexto_failures = [k \in Keys |-> NoFail]
    /\ contexto_inflight = [k \in Keys |-> FALSE]
    /\ task = [k \in Keys |-> NoTask]
    /\ inbox = [p \in Procs |-> None]
    /\ call = [p \in Procs |-> NoCall]
    /\ calendario_failures = [k \in CalKeys |-> NoFail]
    /\ transport_failed = [k \in Keys |-> 0]
    /\ req = [p \in Procs |-> NoReq]
    /\ utc_now \in (IF app \in {"validator", "recommend", "tool"} THEN UtcNows ELSE {0})
    /\ rec = [p \in Procs |-> NoRec]
    /\ tool = [p \in Procs |-> NoTool]

NextCitas ==
    \/ \E p \in Procs, k \in Keys \cup {NoKey} : GetHorario(p, k)
    \/ \E p \in Procs : LockAcquired(p)
    \/ \E p \in Procs, o \in {"biz", "empty", "raise"} : Response(p, o, None)
    \/ \E p \in Procs, v \in Values : Response(p, "ok", v)
    \/ \E p \in Procs : BackoffDone(p)
    \/ \E p \in Procs : CancelHorario(p)
    \/ Tick

NextVentas ==
    \/ \E p \in Procs, k \in Keys \cup {NoKey} : FetchContexto(p, k)
    \/ \E k \in Keys, o \in {"biz", "raise"} : TaskResponse(k, o, None)
    \/ \E k \in Keys, v \in Values : TaskResponse(k, "ok", v)
    \/ \E k \in Keys : TaskResponse(k, "okempty", "")
    \/ \E k \in Keys : TaskBackoffDone(k)
    \/ \E p \in Procs : Resume(p)
    \/ \E p \in Procs : CancelContexto(p)
    \/ Tick

NextCall ==
    \/ \E p \in Procs, k \in CallKeys, mr \in 0..MaxRetriesArg, b \in Bases :
            ResilientCall(p, k, mr, b)
    \/ \E p \in Procs, v \in Values : CallReturns(p, v)
    \/ \E p \in Procs, e \in Excs : CallRaises(p, e)
    \/ \E p \in Procs : CallBackoffDone(p)
    \/ Tick

NextBooking ==
    \/ \E p \in Procs, k \in Keys, f \in Fechas, t \in Horas : ConfirmBooking(p, k, f, t)
    \/ \E p \in Procs, o \in {"ok", "biz", "timeout", "connect", "http_status", "other"} :
            BookingResponse(p, o)
    \/ Tick

\* what follows the entry of validate
ValidateGoesOn ==
    \/ \E p \in Procs, o \in {"biz", "empty", "raise"} : Response(p, o, None)
    \/ \E p \in Procs, v \in Values : Response(p, "ok", v)
    \/ \E p \in Procs : BackoffDone(p)
    \/ \E p \in Procs : ValidateHorario(p)
    \/ \E p \in Procs, o \in AvailOutcomes : AvailabilityResponse(p, o)
    \/ Tick

NextValidator ==
    \/ \E p \in Solo, k \in ValKeys, r \in Requests, h \in HostOffsets :
            Validate(p, k, r[1], r[2], h)
    \/ ValidateGoesOn

NextValidators ==
    \/ \E p \in Procs, k \in ValKeys, r \in Overlapping, h \in HostOffsets :
            Validate(p, k, r[1], r[2], h)
    \/ \E p \in Procs : LockAcquired(p)
    \/ ValidateGoesOn

NextRecommend ==
    \/ \E p \in Procs, f \in RecFechas, t \in RecHoras : Recommendation(p, f, t)
    \/ \E p \in Procs, o \in AvailOutcomes : RecAvailability(p, o)
    \/ \E p \in Procs, o \in SugerirOutcomes : RecSugerir(p, o)

NextTool ==
    \/ \E p \in Solo, k \in ValKeys, a \in ToolFechas, t \in ToolHoras, persona \in BOOLEAN :
            CreateBooking(p, k, a, t, persona)
    \/ \E p \in Solo, a \in ToolFechas, t \in RecHoras : CheckAvailability(p, a, t)
    \/ ValidateGoesOn
    \/ \E p \in Procs : ToolValidateRaises(p)
    \/ \E p \in Procs, sesion \in BOOLEAN : ToolValidated(p, sesion)
    \/ \E p \in Procs, o \in {"ok", "biz", "timeout", "connect", "http_status", "other"} :
            ToolBookingResponse(p, o)
    \/ \E p \in Procs, o \in AvailOutcomes : RecAvailability(p, o)
    \/ \E p \in Procs, o \in SugerirOutcomes : RecSugerir(p, o)
    \/ \E p \in Procs : ToolRecommended(p)

Next ==
    \/ NextCitas \/ NextVentas \/ NextCall \/ NextBooking
    \/ NextValidator \/ NextValidators \/ NextRecommend \/ NextTool

\* either process
Spec == Init /\ [][Next]_vars

InitCitas == Init /\ app = "citas"

InitVentas == Init /\ app = "ventas"

\* the citas_ventas process
SpecCitas == InitCitas /\ [][NextCitas]_vars

\* the ventas process
SpecVentas == InitVentas /\ [][NextVentas]_vars

InitServices == Init /\ app \in {"citas", "ventas"}

\* the two agent processes
SpecServices == InitServices /\ [][NextCitas \/ NextVentas]_vars

InitBreakers == Init /\ app \in {"ventas", "call"}

\* the ventas process and callers of resilient_call
SpecBreakers == InitBreakers /\ [][NextVentas \/ NextCall]_vars

InitCall == Init /\ app = "call"

\* callers of resilient_call
SpecCall == InitCall /\ [][NextCall]_vars

InitValidator == Init /\ app = "validator"

\* calls of ScheduleValidator.validate one after the other
SpecValidator == InitValidator /\ [][NextValidator]_vars

\* calls of ScheduleValidator.validate that overlap
SpecValidators == InitValidator /\ [][NextValidators]_vars

InitRecommend == Init /\ app = "recommend"

\* callers of ScheduleValidator.recommendation
SpecRecommend == InitRecommend /\ [][NextRecommend]_vars

\* get_horario for one tenant
NextHerd ==
    \/ \E p \in Procs, k \in ValKeys : GetHorario(p, k)
    \/ \E p \in Procs : LockAcquired(p)
    \/ \E p \in Procs, o \in {"biz", "empty", "raise"} : Response(p, o, None)
    \/ \E p \in Procs, v \in Values : Response(p, "ok", v)
    \/ \E p \in Procs : BackoffDone(p)
    \/ \E p \in Procs : CancelHorario(p)
    \/ Tick

\* the event loop runs a waiter whose lock was released and a sleeper whose
\* backoff is over, and every upstream call returns or raises
FairHerd ==
    \A p \in Procs :
        /\ WF_vars(LockAcquired(p))
        /\ WF_vars(BackoffDone(p))
        /\ WF_vars(\E o \in {"biz", "empty", "raise", "ok"}, v \in Values \cup {None} :
                        Response(p, o, v))

\* the citas_ventas process serving one tenant, with an upstream that
\* always answers
SpecHerd == InitCitas /\ [][NextHerd]_vars /\ FairHerd

InitTool == Init /\ app = "tool"

\* the agent calling check_availability and create_booking, one call after
\* the other
SpecTool == InitTool /\ [][NextTool]_vars

InitBooking == Init /\ app = "booking"

\* callers of confirm_booking
SpecBooking == InitBooking /\ [][NextBooking]_vars

-----------------------------------------------------------------------------
(* Properties *)

Quiet(k) == ~ \E q \in Procs : Active(q) /\ key[q] = k

InFlight(k) == {p \in Procs : pc[p] = "fetch" /\ key[p] = k}

\* C1: M >= 2 concurrent get_horario(K) calls on a cold cache with the
\* circuit closed cause exactly one upstream fetch and all return the same
\* outcome, whatever that fetch's result.
C1_OneFetchForColdHerd ==
    \A k \in Keys :
        herd[k].st = "closed" /\ Quiet(k)
            => herd[k].runs = 1 /\ herd[k].out # "differ"

\* C2: at every instant at most one upstream schedule fetch is in flight
\* per tenant.
C2_OneFetchInFlight ==
    \A k \in Keys : Cardinality(InFlight(k)) <= 1

\* C3: cancelling one caller of fetch_contexto_negocio(K) never cancels
\* the shared fetch, and no other caller is handed a cancellation.
C3_CancelNeverCancelsFetch ==
    /\ \A k \in Keys : task[k].st # "cancelled"
    /\ \A p \in Procs : pc[p] \in {"own_rdy", "shield_rdy"} => inbox[p] # "cancelled"

\* resilient_call makes its first attempt in this step
FirstAttempt(p) == pc[p] \in {"idle", "wait"} /\ pc'[p] = "fetch"

\* a waiter leaves the lock queue in this step and reaches resilient_call
ReachesCall(p) ==
    /\ pc[p] = "wait" /\ pc'[p] # "wait"
    /\ ret'[p].how \notin {"cancelled", "hit2"}

RejectsWhileOpen ==
    \A p \in Procs :
        /\ FirstAttempt(p) => FailureCount(failures, key'[p]) < FAILURE_THRESHOLD
        /\ ReachesCall(p) /\ FailureCount(failures, key[p]) >= FAILURE_THRESHOLD
              => pc'[p] = "idle" /\ ret'[p].how = "circuit"

\* C4 (as claimed): the third consecutive resilient_call for K that
\* exhausts its retries, with no success in between, leaves the circuit of
\* K open, and a resilient_call entered while it is open raises without
\* any attempt.
C4_OpenAfterThreeConsecutive ==
    [][ /\ \A k \in Keys :
              streak[k].n < FAILURE_THRESHOLD /\ streak'[k].n = FAILURE_THRESHOLD
                  => FailureCount(failures', k) >= FAILURE_THRESHOLD
        /\ RejectsWhileOpen ]_vars

\* C4 (amended): the same, for three consecutive exhausted calls each
\* recorded before the failure entry left by the previous one expired.
C4_OpenAfterThreeFresh ==
    [][ /\ \A k \in Keys :
              streak'[k].fresh = FAILURE_THRESHOLD /\ TTLHas(failures', k)
                  => FailureCount(failures', k) >= FAILURE_THRESHOLD
        /\ RejectsWhileOpen ]_vars

C4_Witness ==
    \E p \in Procs :
        /\ app = "citas" /\ pc[p] = "idle" /\ ret[p].how = "circuit"
        /\ streak[key[p]].fresh = FAILURE_THRESHOLD
        /\ FailureCount(failures, key[p]) >= FAILURE_THRESHOLD

\* C5: a success:false response for K never increments K's failure
\* counter, in get_horario (through resilient_call) and in
\* _do_fetch_contexto, also after an earlier attempt of the call raised.
C5_BizNeverIncrements ==
    [][ /\ \A p \in Procs :
              app = "citas" /\ pc[p] = "fetch" /\ ret'[p].how = "biz"
                  => FailureCount(failures', key[p]) <= FailureCount(failures, key[p])
        /\ \A k \in Keys :
              task[k].st = "fetch" /\ task'[k].st = "done" /\ task'[k].out = "biz"
                  => FailureCount(contexto_failures', k)
                        <= FailureCount(contexto_failures, k) ]_vars

C5_Witness ==
    \E k \in Keys :
        /\ task[k].st = "done" /\ task[k].out = "biz"
        /\ task[k].failed /\ task[k].attempt = 1
        /\ FailureCount(contexto_failures, k) = 1

\* C6: a success:false response fetched through resilient_call leaves the
\* circuit state of K exactly as it was: not incremented, not reset.
C6_BizLeavesCircuitState ==
    [][ \A p \in Procs :
            app = "citas" /\ pc[p] = "fetch" /\ ret'[p].how = "biz"
                => failures'[key[p]] = failures[key[p]] ]_vars

\* p enters get_horario(k) in this step
Enters(p, k) ==
    ncalls' # ncalls /\ pc[p] = "idle" /\ key'[p] = k /\ GetHorario(p, k)

\* C7: get_horario never returns a cached schedule whose TTL has elapsed;
\* with an expired entry the call takes the path of a cold cache (breaker
\* test, then the per-tenant lock and the upstream fetch).
C7_NeverServedStale ==
    [][ \A p \in Procs, k \in Keys :
          /\ Enters(p, k) =>
                /\ ret'[p].how = "hit" <=> horario_cache[k].left > 0
                /\ ret'[p].how = "hit" => ret'[p].val = horario_cache[k].val
                /\ horario_cache[k].left = 0 =>
                      IF is_open(k)
                          THEN ret'[p].how = "open"
                          ELSE pc'[p] \in {"wait", "fetch"}
          /\ pc[p] = "wait" /\ key[p] = k /\ ret'[p].how = "hit2" /\ LockAcquired(p) =>
                /\ horario_cache[k].left > 0
                /\ ret'[p].val = horario_cache[k].val ]_vars

C7_Witness ==
    \E p \in Procs :
        /\ app = "citas" /\ pc[p] = "fetch"
        /\ horario_cache[key[p]] # NoEntry
        /\ horario_cache[key[p]].left = 0

\* C8: from the moment a schedule for K is cached until its TTL elapses,
\* every get_horario(K) returns that value, no upstream call for K starts
\* and the entry is not rewritten, whatever calls were already in progress.
C8_ServedUnchangedWithinTTL ==
    [][ \A k \in Keys :
          horario_cache[k].left > 0 =>
            /\ horario_cache'[k].val = horario_cache[k].val
            /\ horario_cache'[k].left <= horario_cache[k].left
            /\ \A p \in Procs :
                  /\ key'[p] = k /\ pc'[p] = "fetch" => pc[p] = "fetch"
                  /\ Enters(p, k) =>
                        ret'[p] = [how |-> "hit", val |-> horario_cache[k].val] ]_vars

\* C9: on a cache miss for K with the circuit of K open, get_horario
\* returns None without creating or acquiring a lock and without any
\* upstream call.
C9_OpenCircuitFastReject ==
    [][ \A p \in Procs, k \in Keys :
          /\ horario_cache[k].left = 0
          /\ is_open(k)
          /\ Enters(p, k)
          => /\ pc'[p] = "idle"
             /\ ret'[p] = [how |-> "open", val |-> None]
             /\ fetch_locks' = fetch_locks
             /\ lockWaiters' = lockWaiters
             /\ lockOf' = lockOf
             /\ \A q \in Procs : pc'[q] = "fetch" => pc[q] = "fetch" ]_vars

C9_Witness ==
    \E p \in Procs :
        /\ app = "citas" /\ pc[p] = "idle" /\ ret[p].how = "open"
        /\ is_open(key[p])

\* C10: whenever no get_horario call for K is in progress, _fetch_locks
\* holds no entry for K.
C10_NoLockWhenQuiet ==
    \A k \in Keys : Quiet(k) => fetch_locks[k] = NoLock

C10_Witness ==
    \E p, q \in Procs :
        /\ app = "citas" /\ p # q /\ key[p] = key[q]
        /\ pc[p] = "idle" /\ pc[q] = "idle"
        /\ ret[p].how = "ok" /\ ret[q].how = "error"
        /\ \A k \in Keys : fetch_locks[k] = NoLock

InCall(p) == app = "call" /\ pc[p] \in {"rc_fetch", "rc_sleep"}

\* the sleeps a call has made so far are backoff_base * 2^0, 2^1, ...
BackoffSchedule(p) ==
    call[p].slept = [i \in 1..Len(call[p].slept) |-> call[p].base * 2^(i - 1)]

AttemptsAndSleeps(p) ==
    InCall(p) /\ call[p].maxr >= 1 =>
        /\ call[p].invoked = attempt[p] + 1
        /\ call[p].invoked <= call[p].maxr
        /\ BackoffSchedule(p)
        /\ Len(call[p].slept) =
              IF pc[p] = "rc_sleep" THEN call[p].invoked ELSE call[p].invoked - 1

\* C11: with the circuit closed and max_retries >= 1, resilient_call invokes
\* the fetch function at most max_retries times, stops at the first attempt
\* that returns, sleeps backoff_base * 2^attempt between consecutive
\* attempts and does not sleep after the final attempt.
C11_RetriesAndBackoff ==
    [][ \A p \in Procs :
          /\ AttemptsAndSleeps(p)'
          /\ \A v \in Values : CallReturns(p, v) =>
                pc'[p] = "idle" /\ ret'[p] = [how |-> "ok", val |-> v]
          /\ InCall(p) /\ call[p].maxr >= 1 /\ call[p].invoked = call[p].maxr
                => pc'[p] \in {"idle", "rc_fetch"} /\ call'[p].invoked <= call[p].invoked
          /\ InCall(p) /\ call[p].maxr >= 1 /\ ret'[p].how = "raised"
                => pc[p] = "rc_fetch" /\ call[p].invoked = call[p].maxr ]_vars

C11_Witness ==
    \E p \in Procs :
        /\ InCall(p) /\ pc[p] = "rc_fetch"
        /\ call[p].maxr = 3 /\ call[p].invoked = 3 /\ call[p].base = 2
        /\ call[p].slept = <<2, 4>>

\* C12: when every attempt of one resilient_call for K raises, K's failure
\* counter goes up by exactly one, in the step that ends the call and in no
\* other step of it, and the caller gets the exception of the last attempt.
C12_OneFailurePerCall ==
    [][ \A p \in Procs :
          InCall(p) /\ call[p].maxr >= 1 =>
            /\ \A e \in Excs : CallRaises(p, e) =>
                  IF pc'[p] = "idle"
                      THEN /\ ret'[p] = [how |-> "raised", val |-> e]
                           /\ FailureCount(failures', key[p])
                                 = FailureCount(failures, key[p]) + 1
                           /\ call[p].invoked = call[p].maxr
                      ELSE failures' = failures
            /\ CallBackoffDone(p) => failures' = failures /\ pc'[p] = "rc_fetch" ]_vars

C12_Witness ==
    \E p \in Procs :
        /\ app = "call" /\ pc[p] = "idle"
        /\ ret[p] = [how |-> "raised", val |-> "Connect"]
        /\ call[p].invoked = 3 /\ call[p].before = 1
        /\ FailureCount(failures, key[p]) = 2

\* C13: an attempt of resilient_call for K that returns resets K's failure
\* counter to zero (circuit closed), whatever the counter was, and the call
\* returns that attempt's result.
C13_ReturnResetsCounter ==
    [][ \A p \in Procs, v \in Values :
          CallReturns(p, v) =>
            /\ FailureCount(failures', key[p]) = 0
            /\ ~ CircuitRejects(key[p])'
            /\ pc'[p] = "idle"
            /\ ret'[p] = [how |-> "ok", val |-> v] ]_vars

C13_Witness ==
    \E p \in Procs :
        /\ app = "call" /\ pc[p] = "idle" /\ ret[p].how = "ok"
        /\ call[p].before >= FAILURE_THRESHOLD
        /\ FailureCount(failures, key[p]) = 0

\* caller p takes a step of its call
Acts(p) == <<pc[p], ret[p], attempt[p], lockOf[p]>>' # <<pc[p], ret[p], attempt[p], lockOf[p]>>

C15_BookingRejectedByOwnFailures ==
    \A p \in Procs :
        ret[p].how = "circuit_open"
            => transport_failed[key[p]] >= FAILURE_THRESHOLD

\* a failure entry with a count in it whose cooldown ran out with no write
\* since
Expired(f, k) == f[k].left = 0 /\ f[k].val > 0

\* C16: when the failure counter of K is non-zero and no further failure is
\* recorded during one full cooldown, the counter is forgotten: it reads as
\* zero, the circuit of K is closed, and the next call for K (a
\* resilient_call with an attempt to make, a fetch of the context on a cold
\* cache with none in flight) reaches the network.
C16_CooldownForgets ==
    [][ /\ \A k \in Keys :
              Expired(failures, k)
                  => /\ FailureCount(failures, k) = 0
                     /\ ~ is_open(k) /\ ~ CircuitRejects(k)
        /\ \A k \in Keys :
              Expired(contexto_failures, k)
                  => /\ FailureCount(contexto_failures, k) = 0
                     /\ ~ is_contexto_circuit_open(k)
        /\ \A p \in Procs, k \in CallKeys, mr \in 1..MaxRetriesArg, b \in Bases :
              Expired(failures, k) /\ ResilientCall(p, k, mr, b)
                  => pc'[p] = "rc_fetch"
        /\ \A p \in Procs, k \in Keys :
              /\ Expired(contexto_failures, k)
              /\ ~ TTLHas(contexto_cache, k) /\ ~ contexto_inflight[k]
              /\ FetchContexto(p, k)
              => pc'[p] = "own" /\ task'[k].st = "fetch" ]_vars

C16_Witness ==
    \E p \in Procs :
        /\ app = "ventas" /\ pc[p] = "own" /\ task[key[p]].st = "fetch"
        /\ contexto_failures[key[p]].val >= FAILURE_THRESHOLD
        /\ contexto_failures[key[p]].left = 0

\* the check of the fixed order that fails first for a request, given what
\* get_horario returned for it (sched) and the answer of the availability
\* query (o); "valid" when none fails, or when the schedule could not be
\* fetched or the day's range could not be read
FirstFailing(checks) ==
    LET cs    == checks
        stops == {i \in 1..Len(cs) : cs[i].out # "pass"}
    IN  IF stops = {} THEN "valid"
        ELSE LET i == CHOOSE j \in stops : \A l \in stops : j <= l
             IN  IF cs[i].out = "fail" THEN cs[i].name ELSE "valid"

Outcome(name, fails) == [name |-> name, out |-> IF fails THEN "fail" ELSE "pass"]

FormatChecks(f, t) ==
    << Outcome("bad_date", ParseFecha(f) = Fail),
       Outcome("bad_time", ParseTime(t) = Fail),
       Outcome("passed", Instant(f, t) <= utc_now + ZonaPeru) >>

DayOf(f, sched) == Horario(sched).dias[Weekday(ParseFecha(f))]

UpstreamChecks(f, t, sched, o) ==
    IF sched = None THEN << [name |-> "fetch", out |-> "accept"] >>
    ELSE LET dia   == DayOf(f, sched)
             rango == ParseTimeRange(dia.parts)
             hora  == ParseTime(t)
         IN  << Outcome("no_schedule", dia.lit \in {None, ""}),
                Outcome("closed", StripUpper(dia.lit) \in ClosedMarkers),
                [name |-> "range", out |-> IF rango.ok THEN "pass" ELSE "accept"],
                Outcome("before", hora < rango.ini),
                Outcome("after", hora >= rango.fin),
                Outcome("overflow", hora + duracion_minutos > rango.fin),
                Outcome("blocked", IsTimeBlocked(f, hora, Horario(sched).bloqueados)),
                Outcome("occupied", o = "ocupado") >>

Expected(f, t, sched, o) ==
    FirstFailing(FormatChecks(f, t) \o UpstreamChecks(f, t, sched, o))

\* the verdicts of the checks made before anything is fetched
FormatVerdicts == {"bad_date", "bad_time", "passed"}

\* C17: validate evaluates its checks in the fixed order date format, time
\* format, already passed, schedule fetch, day closed, hour range, duration
\* overflow, blocked time, external overlap and returns the reason of the
\* first that fails; a date-format, time-format or already-passed rejection
\* is returned with no schedule fetch and no availability query.
C17_FirstFailingCheck ==
    [][ \A p \in Procs :
          /\ req'[p] # req[p] /\ req'[p].st \in {"horario", "done"}
                => LET e == Expected(req'[p].f, req'[p].t, None, "timeout") IN
                   IF e \in FormatVerdicts
                      THEN /\ req'[p].st = "done" /\ req'[p].verdict = e
                           /\ ~ req'[p].fetched /\ ~ req'[p].queried
                      ELSE req'[p].fetched /\ req'[p].verdict \notin FormatVerdicts
          /\ ncalls' # ncalls /\ req'[p].st = "done" /\ req'[p] # req[p]
                => UNCHANGED <<pc, citasVars>>
          /\ req'[p] # req[p] /\ req[p].st = "horario" /\ ValidateHorario(p)
                => IF req'[p].st = "done"
                      THEN /\ req'[p].verdict
                                = Expected(req[p].f, req[p].t, ret[p].val, "disponible")
                           /\ req'[p].verdict
                                = Expected(req[p].f, req[p].t, ret[p].val, "ocupado")
                           /\ ~ req'[p].queried
                      ELSE /\ Expected(req[p].f, req[p].t, ret[p].val, "disponible") = "valid"
                           /\ Expected(req[p].f, req[p].t, ret[p].val, "ocupado") = "occupied"
          /\ req'[p] # req[p] /\ pc[p] = "vd_avail"
                => \A o \in AvailOutcomes :
                      AvailabilityResponse(p, o)
                          => req'[p].verdict
                                = Expected(req[p].f, req[p].t, req[p].horario, o) ]_vars

C17_Witness ==
    \E p \in Procs :
        /\ app = "validator" /\ req[p].st = "done"
        /\ req[p].verdict = "blocked" /\ req[p].fetched /\ ~ req[p].queried
        /\ ret[p].how = "hit"

\* a request whose date and time both parse
WellFormed(f, t) == ParseFecha(f) # Fail /\ ParseTime(t) # Fail

\* C18: validate rejects a request as already passed exactly when its
\* date-time is less than or equal to the current time in the business's
\* timezone, and for the same instant the outcome of the call is the same
\* whatever the timezone of the host machine.
C18_PassedInBusinessTime ==
    [][ \A p \in Procs :
          /\ req'[p] # req[p] /\ req'[p].st \in {"horario", "done"}
                => ( req'[p].verdict = "passed"
                        <=> /\ WellFormed(req'[p].f, req'[p].t)
                            /\ Instant(req'[p].f, req'[p].t) <= utc_now + ZonaPeru )
          /\ ncalls' # ncalls /\ pc[p] = "idle" /\ req'[p].st \in {"horario", "done"}
                => \A k \in ValKeys, h1, h2 \in HostOffsets :
                      Validate(p, k, req'[p].f, req'[p].t, h1)
                          => Validate(p, k, req'[p].f, req'[p].t, h2) ]_vars

C18_Witness ==
    \E p \in Procs :
        /\ app = "validator" /\ req[p].st = "done" /\ req[p].verdict = "passed"
        /\ Instant(req[p].f, req[p].t) = utc_now + ZonaPeru

\* the ways get_horario ends without a schedule because the upstream could
\* not be reached: retries exhausted, circuit open
FetchFailures == {"error", "open", "circuit"}

\* the verdicts drawn from the schedule
ScheduleVerdicts == {"no_schedule", "closed", "before", "after", "overflow", "blocked"}

\* C19: validate never returns invalid because of an infrastructure
\* failure: when the schedule fetch fails (transport error, timeout, open
\* circuit) the verdict is valid, when the availability query raises the
\* slot is taken as available, and an invalid verdict comes only from the
\* format and time rules, from a schedule that was obtained, or from an
\* answer of the upstream that the slot is occupied.
C19_InfrastructureNeverRejects ==
    [][ \A p \in Procs :
          /\ req'[p] # req[p] /\ req[p].st = "horario" /\ ret[p].how \in FetchFailures
                => req'[p].st = "done" /\ req'[p].verdict = "valid"
          /\ pc[p] = "vd_avail"
                => \A o \in {"timeout", "http", "other"} :
                      AvailabilityResponse(p, o) => req'[p].verdict = "valid"
          /\ req'[p] # req[p] /\ req'[p].st = "done" /\ req'[p].verdict # "valid"
                => \/ req'[p].verdict \in FormatVerdicts
                   \/ /\ req'[p].verdict \in ScheduleVerdicts
                      /\ req[p].st = "horario" /\ ret[p].val \in Values
                   \/ /\ req'[p].verdict = "occupied"
                      /\ AvailabilityResponse(p, "ocupado") ]_vars

C19_Witness ==
    \E p \in Procs :
        /\ app = "validator" /\ req[p].st = "done" /\ req[p].verdict = "valid"
        /\ ret[p].how = "open" /\ ~ req[p].queried
        /\ FailureCount(failures, key[p]) >= FAILURE_THRESHOLD

\* the step in which the schedule fetch made for p's validate gives up
FetchTimesOut(p) ==
    pc[p] = "fetch" /\ req[p].st = "horario" /\ ret'[p].how = "error"

\* validate goes on after that
ReturnsAfterTimeout(p) ==
    req[p].st = "horario" /\ req'[p] # req[p] /\ ret[p].how = "error"

\* C20 (as claimed): when the schedule fetch performed by validate for K
\* times out, validate returns valid and the failure counter of K is
\* exactly one higher than it was before the call.
C20_OneHigherThanBeforeCall ==
    [][ \A p \in Procs :
          /\ FetchTimesOut(p)
                => FailureCount(failures', key[p]) = req[p].before + 1
          /\ ReturnsAfterTimeout(p)
                => req'[p].st = "done" /\ req'[p].verdict = "valid" ]_vars

\* C20 (amended): when the schedule fetch performed by validate for K times
\* out, validate returns valid and the failure counter of K is exactly one
\* higher than it was when the failure was recorded.
C20_OneHigherThanWhenRecorded ==
    [][ \A p \in Procs :
          /\ FetchTimesOut(p)
                => FailureCount(failures', key[p]) = FailureCount(failures, key[p]) + 1
          /\ ReturnsAfterTimeout(p)
                => req'[p].st = "done" /\ req'[p].verdict = "valid" ]_vars

C20_Witness ==
    \E p \in Procs :
        /\ app = "validator" /\ req[p].st = "done" /\ req[p].verdict = "valid"
        /\ ret[p].how = "error"
        /\ FailureCount(failures, key[p]) = 2

\* the calendar: the weekday of each date that is asked for
CalendarDayName(f) ==
    CASE f = Fecha(2026, 11, 6, "-") -> "viernes"
      [] f = Fecha(2026, 11, 7, "-") -> "sabado"
      [] f = Fecha(2026, 11, 8, "-") -> "domingo"
      [] f = Fecha(2026, 11, 9, "-") -> "lunes"
      [] f = Fecha(2026, 11, 10, "-") -> "martes"
      [] OTHER -> None

\* the position of a weekday in a schedule
DayField(name) ==
    CASE name = "lunes" -> 0 [] name = "martes" -> 1 [] name = "miercoles" -> 2
      [] name = "jueves" -> 3 [] name = "viernes" -> 4 [] name = "sabado" -> 5
      [] name = "domingo" -> 6

\* the texts, among those of the schedules, of a day without attention: no
\* field, nothing, blanks, and closed markers in any case of letters
ShutTexts == {None, "", " ", "Cerrado", "n/a"}

\* C21: for a future date-time and a fetched schedule whose entry for the
\* requested weekday is absent, empty or a closed marker compared without
\* regard to case, validate returns invalid with a reason that names that
\* weekday, and no availability query is made.
C21_ClosedDayNamed ==
    [][ \A p \in Procs :
          /\ req'[p] # req[p] /\ req[p].st = "horario" /\ ret[p].val \in Values
          /\ CalendarDayName(req[p].f) # None
          /\ Horario(ret[p].val).dias[DayField(CalendarDayName(req[p].f))].lit \in ShutTexts
          => /\ req'[p].st = "done"
             /\ req'[p].verdict \in {"no_schedule", "closed"}
             /\ req'[p].dia = CalendarDayName(req[p].f)
             /\ ~ req'[p].queried /\ pc'[p] = "idle" ]_vars

C21_Witness ==
    \E p \in Procs :
        /\ app = "validator" /\ req[p].st = "done"
        /\ req[p].f = Fecha(2026, 11, 7, "-")
        /\ req[p].verdict = "closed" /\ req[p].dia = "sabado"
        /\ req[p].fetched /\ ~ req[p].queried

\* the request for date f starting at minute hora and lasting the duration
\* of an appointment shares some minute with a blocked range of that date
OverlapsBlocked(f, hora, bloqueados) ==
    \E b \in bloqueados :
        /\ b.f = f
        /\ hora < ParseTime(b.fin)
        /\ hora + duracion_minutos > ParseTime(b.ini)

\* C22: validate rejects a request whose interval [start, start+duration)
\* overlaps a blocked-time entry for that date, for structured entries and
\* for free-text entries, including a request that starts before the blocked
\* range and ends inside it.
C22_OverlapWithBlockedRejected ==
    [][ \A p \in Procs :
          /\ req'[p] # req[p] /\ req[p].st = "horario" /\ ret[p].val \in Values
          /\ ParseTimeRange(DayOf(req[p].f, ret[p].val).parts).ok
          /\ OverlapsBlocked(req[p].f, ParseTime(req[p].t), Horario(ret[p].val).bloqueados)
          => req'[p].st = "done" /\ req'[p].verdict \in ScheduleVerdicts ]_vars

\* validate, having the schedule sched for p's request, goes on from
\* get_horario
SchedulePhase(p) ==
    req'[p] # req[p] /\ req[p].st = "horario" /\ ret[p].val \in Values

\* the opening range of the day of p's request
RangoOf(p) == ParseTimeRange(DayOf(req[p].f, ret[p].val).parts)

\* the request is for the Friday whose schedule is "09:00-18:00"
FridayNineToSix(p) ==
    ret[p].val = "hA" /\ req[p].f = Fecha(2026, 11, 6, "-")

\* C23: validate rejects when start + duration is later than the day's
\* closing time and does not reject on this check when start + duration
\* equals closing time: with schedule 09:00-18:00 and duration 60, a 14:00 or
\* 17:00 start passes and a 17:01 start is rejected.
C23_OverflowPastClosing ==
    [][ \A p \in Procs :
          /\ ( SchedulePhase(p) /\ RangoOf(p).ok
               /\ RangoOf(p).ini <= ParseTime(req[p].t)
               /\ ParseTime(req[p].t) < RangoOf(p).fin )
             => ( req'[p].verdict = "overflow"
                    <=> ParseTime(req[p].t) + duracion_minutos > RangoOf(p).fin )
          /\ ( SchedulePhase(p) /\ FridayNineToSix(p)
               /\ req[p].t \in {Hora(2, 0, "PM"), Hora(5, 0, "PM")} )
             => req'[p].st = "avail" /\ req'[p].queried
          /\ ( SchedulePhase(p) /\ FridayNineToSix(p) /\ req[p].t = Hora(5, 1, "PM") )
             => /\ req'[p].st = "done" /\ req'[p].verdict = "overflow"
                /\ ~ req'[p].queried ]_vars

C23_Witness ==
    \E p \in Procs :
        /\ app = "validator" /\ req[p].st = "avail"
        /\ req[p].horario = "hA" /\ req[p].f = Fecha(2026, 11, 6, "-")
        /\ req[p].t = Hora(5, 0, "PM")

\* C24: with a parsed opening range [open, close), validate rejects a
\* request whose start time is before open or at or after close, and never
\* rejects on the hour-range check a start time with open <= start < close.
C24_HourRange ==
    [][ \A p \in Procs :
          ( SchedulePhase(p) /\ RangoOf(p).ok )
             => /\ ( req'[p].verdict = "before"
                        <=> ParseTime(req[p].t) < RangoOf(p).ini )
                /\ ( req'[p].verdict = "after"
                        <=> /\ ParseTime(req[p].t) >= RangoOf(p).ini
                            /\ ParseTime(req[p].t) >= RangoOf(p).fin )
                /\ req'[p].verdict \in {"before", "after"}
                        => req'[p].st = "done" /\ ~ req'[p].queried ]_vars

C24_Witness ==
    \E p \in Procs :
        /\ app = "validator" /\ req[p].st = "done" /\ req[p].verdict = "after"
        /\ req[p].f = Fecha(2026, 11, 6, "-") /\ req[p].t = Hora(18, 0, "")
        /\ ret[p].val = "hA"

\* C25: when the weekday's schedule string is present, is not a closed
\* marker, and cannot be parsed as an open-close range, validate returns
\* valid.
C25_UnparsedRangeIsValid ==
    [][ \A p \in Procs :
          /\ ( SchedulePhase(p) /\ DayOf(req[p].f, ret[p].val).lit \notin ShutTexts
               /\ ~ RangoOf(p).ok )
             => /\ req'[p].st = "done" /\ req'[p].verdict = "valid"
                /\ ~ req'[p].queried
          /\ ( SchedulePhase(p) /\ ret[p].val = "hB"
               /\ CalendarDayName(req[p].f) \in {"viernes", "martes"} )
             => req'[p].st = "done" /\ req'[p].verdict = "valid" ]_vars

C25_Witness ==
    \E p \in Procs :
        /\ app = "validator" /\ req[p].st = "done" /\ req[p].verdict = "valid"
        /\ ret[p].val = "hB" /\ req[p].f = Fecha(2026, 11, 10, "-")
        /\ req[p].fetched /\ ~ req[p].queried

\* C26: a 2xx response with success:false from the exact-slot availability
\* query is surfaced to the caller as a business failure message; it is not
\* turned into the slot being reported as available.
C26_BusinessFailureSurfaced ==
    [][ \A p \in Procs :
          pc[p] = "vd_avail" /\ AvailabilityResponse(p, "biz")
             => req'[p].verdict # "valid" ]_vars

\* a date and a time are both written out in p's call as it stands after
\* the step
DateAndTime(p) == rec'[p].f.kind = "text" /\ rec'[p].t.kind = "text"

TodayOrTomorrow == {Fecha(2026, 11, 5, "-"), Fecha(2026, 11, 6, "-")}

OtherDates == {Fecha(2026, 11, 7, "-"), Fecha(2026, 3, 5, "-")}

\* C28: recommendation called with a date only, where that date is neither
\* today nor tomorrow in the business timezone, returns the 'give me a time'
\* prompt with zero calls to slot-suggestion; with a date that is today or
\* tomorrow (or no date) it calls slot-suggestion exactly once.
C28_SuggestionsOnlyForTodayTomorrow ==
    \A p \in Procs :
        ( rec[p].st # "none" /\ rec[p].t.kind # "text" )
           => /\ ( rec[p].f.kind = "text" /\ rec[p].f.val \in OtherDates )
                    => /\ rec[p].st = "done" /\ rec[p].text = "give_time"
                       /\ rec[p].sugs = 0 /\ rec[p].asked = 0
              /\ ( \/ rec[p].f.kind = "None"
                   \/ rec[p].f.kind = "text" /\ rec[p].f.val \in TodayOrTomorrow )
                    => /\ rec[p].sugs = 1 /\ rec[p].asked = 0
                       /\ rec[p].st \in {"sugerir", "done"}
                       /\ rec[p].text # "give_time"

C28_Witness ==
    \E p, q \in Procs :
        /\ app = "recommend"
        /\ rec[p].st = "done" /\ rec[p].f = Arg("text", Fecha(2026, 11, 7, "-"))
        /\ rec[p].t.kind = "None" /\ rec[p].text = "give_time" /\ rec[p].sugs = 0
        /\ rec[q].st = "done" /\ rec[q].f = Arg("text", Fecha(2026, 11, 6, "-"))
        /\ rec[q].t.kind = "blank" /\ rec[q].sugs = 1

\* the texts recommendation returns
RecTexts == {"confirm", "occupied_offer", "give_time", "sugerencias", "fallback"}

\* C29: recommendation never raises and always returns a result with a
\* non-empty text: if slot-suggestion fails (timeout, HTTP error or any other
\* exception), reports success:false, or returns no usable suggestions, the
\* result is the generic fallback prompt asking the user for a date and time.
C29_NeverHardFails ==
    [][ \A p \in Procs :
          rec'[p] # rec[p]
             => /\ rec'[p].st \in {"avail", "sugerir", "done"}
                /\ rec'[p].st = "done" => rec'[p].text \in RecTexts
                /\ pc[p] = "rc_sugerir"
                    => /\ rec'[p].st = "done"
                       /\ \A o \in SugerirOutcomes \ {"sugerencias"} :
                             RecSugerir(p, o) => rec'[p].text = "fallback" ]_vars

C29_Witness ==
    \E p \in Procs :
        /\ app = "recommend" /\ rec[p].st = "done"
        /\ rec[p].text = "fallback" /\ rec[p].sugs = 1 /\ rec[p].asked = 0

\* C30: for the create-booking operation a non-2xx HTTP response is counted
\* as a transport failure: it increments the calendar breaker's failure
\* counter exactly as a timeout or connection error does.
C30_HttpStatusFeedsBreaker ==
    [][ \A p \in Procs :
          ( pc[p] = "bk_post" /\ ret'[p].how \in {"timeout", "connect", "http_status"} )
             => calendario_failures'
                    = record_failure(calendario_failures, BookingCircuitKey(key[p])) ]_vars

Handed(p, k) ==
    pc[p] \in {"own", "shield"} /\ key[p] = k /\ pc'[p] \in {"own_rdy", "shield_rdy"}

\* C32: for any tenant K with no cached context and a closed circuit,
\* concurrent fetch_contexto_negocio(K) calls share one in-flight task:
\* exactly one _do_fetch_contexto runs for K and every caller receives that
\* task's result, also when the fetch fails.
C32_SharedInFlightTask ==
    [][ \A p \in Procs, k \in Keys :
          /\ ( ncalls' # ncalls /\ Running(k) /\ ~ TTLHas(contexto_cache, k)
               /\ ~ is_contexto_circuit_open(k) /\ FetchContexto(p, k) )
                => pc'[p] = "shield" /\ task' = task
          /\ ( Handed(p, k) /\ pc[p] = "shield" )
                => task'[k].st = "done" /\ inbox'[p] = task'[k].res
          /\ ( Handed(p, k) /\ pc[p] = "own" /\ task'[k].st = "done" )
                => inbox'[p] = task'[k].res
          /\ ( pc[p] \in {"own_rdy", "shield_rdy"} /\ pc'[p] = "idle"
               /\ inbox[p] # "cancelled" )
                => ret'[p].val = inbox[p] ]_vars

\* the answers with which create_booking turns a request down before it
\* books
TurnedDown == {"fecha_invalida", "datos_invalidos", "horario_invalido"}

\* C33: the create_booking tool sends the confirm_booking request only after
\* its input validation passed and validate returned valid for the same date
\* and time; whenever either fails, no create-event request is made.
C33_BookingOnlyAfterValidation ==
    [][ \A p \in Procs :
          /\ ( app = "tool" /\ pc[p] # "bk_post" /\ pc'[p] = "bk_post" )
                => /\ tool[p].datos
                   /\ CheckDate(tool[p].f, utc_now) /\ CheckTime(tool[p].t)
                   /\ req[p].st = "done" /\ req[p].verdict = "valid"
                   /\ req[p].f = tool[p].f /\ req[p].t = tool[p].t
                   /\ tool'[p].posted = 1
          /\ ( tool[p].st # "done" /\ tool'[p].st = "done"
               /\ tool'[p].reply \in TurnedDown )
                => tool'[p].posted = 0 /\ pc'[p] = "idle" ]_vars

C33_Witness ==
    \E p \in Procs :
        /\ app = "tool" /\ pc[p] = "bk_post"
        /\ tool[p].op = "create_booking" /\ tool[p].posted = 1 /\ tool[p].datos

\* C34: the check_availability and create_booking tools never propagate an
\* exception to the agent: any unexpected error raised inside validation,
\* recommendation or booking is converted into a user-facing text reply.
C34_ToolsAnswerWithText ==
    \A p \in Procs :
        /\ tool[p].st = "done" => tool[p].reply \in ToolTexts
        /\ tool[p].st \in {"none", "done"} => pc[p] = "idle" \/ app # "tool"

C34_Witness ==
    \E p \in Procs :
        /\ app = "tool" /\ tool[p].st = "done"
        /\ tool[p].op = "create_booking" /\ tool[p].reply = "error_inesperado"

\* an attempt on the upstream begins for caller p: coro_factory() is
\* invoked by resilient_call
AttemptBegins(p) ==
    \/ pc[p] # "rc_fetch" /\ pc'[p] = "rc_fetch"
    \/ pc[p] # "fetch" /\ pc'[p] = "fetch"

\* C35: while K's failure counter is at or above the threshold, no upstream
\* attempt for K is made at all, the retries of resilient_call invocations
\* that entered before the circuit opened and the get_horario callers that
\* waited for the per-key lock included.
C35_NoAttemptWhileOpen ==
    [][ \A p \in Procs :
          AttemptBegins(p) => FailureCount(failures, key'[p]) < FAILURE_THRESHOLD ]_vars

\* C36: provided every upstream call terminates (returns or raises), every
\* get_horario call eventually returns: creating the per-key lock lazily and
\* removing it after each fetch never leaves a caller waiting forever.
C36_GetHorarioReturns ==
    \A p \in Procs : (pc[p] # "idle") ~> (pc[p] = "idle")

\* a caller waits on a lock that is no longer the registered one
C36_Witness ==
    \E p \in Procs :
        /\ app = "citas" /\ pc[p] = "wait"
        /\ fetch_locks[key[p]] # lockOf[p]

\* the ways a fetch ends without a schedule: success:false, success without
\* a schedule, every attempt raised
NoScheduleEnds == {"biz", "empty", "error"}

\* C37: the schedule cache only ever holds non-empty schedules taken from a
\* success:true response: transport failures, success:false responses and
\* empty schedules are never cached, so every later get_horario for that
\* tenant goes upstream again (circuit permitting).
C37_OnlySchedulesCached ==
    [][ \A k \in Keys :
          /\ horario_cache'[k].left > 0 => horario_cache'[k].val \in Values
          /\ ( horario_cache'[k] # horario_cache[k] /\ horario_cache'[k].left > 0
               /\ horario_cache'[k].left >= horario_cache[k].left )
                => \E p \in Procs :
                      /\ pc[p] = "fetch" /\ key[p] = k
                      /\ ret'[p] = [how |-> "ok", val |-> horario_cache'[k].val]
          /\ \A p \in Procs :
                /\ ( pc[p] = "fetch" /\ key[p] = k /\ pc'[p] = "idle"
                     /\ ret'[p].how \in NoScheduleEnds )
                      => horario_cache' = horario_cache
                /\ ( ncalls' # ncalls /\ pc[p] = "idle" /\ key'[p] = k
                     /\ ~ CacheHit(k) /\ ~ is_open(k) /\ GetHorario(p, k) )
                      => pc'[p] \in {"fetch", "wait"} ]_vars

\* after a fetch for a tenant ended without a schedule, a later call for it
\* is upstream
C37_Witness ==
    \E p, q \in Procs :
        /\ app = "citas" /\ p # q /\ key[p] = key[q]
        /\ pc[q] = "idle" /\ ret[q].how \in {"biz", "empty"}
        /\ pc[p] = "fetch" /\ attempt[p] = 0 /\ ~ CacheHit(key[p])
        /\ herd[key[p]].st = "none"

\* C38: _contexto_inflight holds an entry for K only while the fetch task
\* for K is unfinished: no completed, failed or cancelled task is ever found
\* registered by a later caller, so a joining caller never receives the
\* result of an already-resolved fetch.
C38_RegisteredOnlyWhileUnfinished ==
    [][ \A p \in Procs, k \in Keys :
          ( ncalls' # ncalls /\ pc[p] = "idle" /\ contexto_inflight[k]
            /\ ~ TTLHas(contexto_cache, k) /\ ~ is_contexto_circuit_open(k)
            /\ FetchContexto(p, k) )
             => Running(k) /\ pc'[p] = "shield" ]_vars

\* C39: every time string that validate accepts (12-hour with meridiem, with
\* or without a space, and 24-hour HH:MM) is also accepted by
\* confirm_booking's time conversion: a validated time is never rejected as
\* an invalid date or time format at the booking step.
C39_ValidatedTimesConvert ==
    [][ \A p \in Procs :
          ( app = "tool" /\ tool[p].st = "validating" /\ tool'[p].st # "validating"
            /\ req[p].st = "done" /\ req[p].verdict = "valid" )
             => /\ ParseTime(req[p].t) # Fail
                /\ ret'[p].how # "invalid_datetime" ]_vars

\* C40: recommendation returns the 'slot is available, shall we confirm?'
\* prompt for a date and time only if an exact-slot availability query for
\* that date and time was actually sent to the collaborator during that call.
C40_ConfirmOnlyAfterQuery ==
    \A p \in Procs :
        ( rec[p].st = "done" /\ rec[p].text = "confirm" ) => rec[p].asked >= 1

=============================================================================
